---- MODULE Spec2Model ----
(***************************************************************************)
(* Metadata index of thread-stack (src/index-manager.ts, kept here as      *)
(* src/unnamed/part_002) over a small corpus of note files.                *)
(*                                                                         *)
(* A path is a sequence of segments: notes/a.md is <<"notes", "a.md">>.    *)
(* A note file is reduced to what the index keeps of it: its tag set (the  *)
(* parser returns a duplicate-free tag list) and its modification time.    *)
(***************************************************************************)
EXTENDS Integers, Sequences, FiniteSets, TLC

VARIABLES
  fs,         \* the corpus: canonical relative path -> file
  clock,      \* the wall clock, in ticks (Date.now / mtimeMs)
  index,      \* IndexManager.index: Null or the in-memory MetadataIndex
  indexFile,  \* <base>/.thread-stack-index.json on disk
  tmpFile,    \* <base>/.thread-stack-index.json.tmp on disk
  result,     \* outcome of the last call: its name, whether it returned, its value
  pc,         \* position of a save() in progress (SaveSpec only), else "idle"
  nWrites,    \* how many times the environment has changed the corpus
  nCalls,     \* how many IndexManager calls (and restarts) there have been
  faults,     \* what fails to read: files that are listed but cannot be read
              \* or parsed, directories whose listing (glob) fails
  out,        \* what the last query, listing or search did and returned
  cache,      \* ZoneScanner.cache and cacheTimestamps: path -> parsed note
  library,    \* the notes (title, body, ...) the search engine ranks
  stream      \* a streaming search in progress: generator and consumer

\* What the scanner and the search engine add to the state of the index.
engine == <<faults, out, cache, library, stream>>

vars == <<fs, clock, index, indexFile, tmpFile, result, pc, nWrites, nCalls,
          faults, out, cache, library, stream>>

----------------------------------------------------------------------------
(* Bounds *)

MaxClock == 1
MaxWrites == 2
MaxCalls == 3

----------------------------------------------------------------------------
(* The corpus *)

Tags == {"t1", "t2"}
\* The tag sets a note file is written with.
Contents == {{"t1"}, {"t1", "t2"}}

BasePath == <<"base">>
Scratch == <<"scratch.md">>
NoteA == <<"notes", "a.md">>
\* An archived note, kept in the archive under the name of its former zone.
ArchC == <<"archive", "notes", "c.md">>
\* A second spelling of notes/a.md, as a caller may pass it to update().
AliasA == <<".", "notes", "a.md">>

\* Every file the corpus can hold, in directory-listing order.
Files == <<Scratch, NoteA, ArchC>>
FileSet == {Files[i] : i \in 1..Len(Files)}
UpdateArgs == FileSet \cup {AliasA}

NoFile == [exists |-> FALSE, tags |-> {}, mtime |-> 0]

----------------------------------------------------------------------------
(* zones.ts *)

\* The zones of ZONE_CONFIGS (type Zone).
ZONE_CONFIGS == {"scratchpad", "inbox", "notes", "daily", "maps", "archive"}

\* path.join(...): concatenate and normalise (drop "." segments).
Join(a, b) == SelectSeq(a \o b, LAMBDA s : s # ".")

IsPrefix(d, p) == Len(p) >= Len(d) /\ SubSeq(p, 1, Len(d)) = d

getZonePath(zone) ==
  IF zone = "scratchpad" THEN Join(BasePath, Scratch) ELSE Join(BasePath, <<zone>>)

getZonePaths(zone) ==
  CASE zone = "scratchpad" -> <<Join(BasePath, Scratch)>>
    [] zone = "inbox" -> <<Join(BasePath, <<"inbox", "quick">>),
                           Join(BasePath, <<"inbox", "voice">>)>>
    [] OTHER -> <<Join(BasePath, <<zone>>)>>

getRelativePath(abs) ==
  IF IsPrefix(BasePath, abs) THEN SubSeq(abs, Len(BasePath) + 1, Len(abs)) ELSE abs

----------------------------------------------------------------------------
(* The file system as the index manager sees it *)

NoFaults == [files |-> {}, dirs |-> {}]

\* stat of an absolute path succeeds iff the file is there.
Listed(abs) ==
  LET rel == getRelativePath(abs) IN rel \in FileSet /\ fs[rel].exists

\* readFile, stat and parse of an absolute path succeed iff the file is there
\* and is not one of those that fail to read or parse.
CanRead(abs) == Listed(abs) /\ getRelativePath(abs) \notin faults.files

\* glob(`${dir}/**/*.md`) throws.
GlobFails(dir) == dir \in faults.dirs

\* glob(`${dir}/**/*.md`): the existing files below dir, in listing order.
Glob(dir) ==
  SelectSeq([i \in 1..Len(Files) |-> Join(BasePath, Files[i])],
            LAMBDA abs : IsPrefix(dir, abs) /\ Len(abs) > Len(dir) /\ Listed(abs))

----------------------------------------------------------------------------
(* index-manager.ts: values *)

Null == [isNull |-> TRUE]

EmptyTags == [t \in {} |-> 0]

EmptyIndex(now) ==
  [version |-> 1, lastUpdated |-> now, notes |-> <<>>, tags |-> EmptyTags]

\* index.tags[tag] || 0
TagCount(tags, t) == IF t \in DOMAIN tags THEN tags[t] ELSE 0

\* A file on disk: absent, unparseable ("corrupt"), opened for writing and
\* not yet completely written ("partial"), or a complete JSON document.
\* JSON.stringify(index) then JSON.parse gives the same version, records and
\* counts back (load re-makes the dates from their strings).
Absent == [kind |-> "absent", content |-> Null, mtime |-> 0]
Corrupt == [kind |-> "corrupt", content |-> Null, mtime |-> 0]
Partial(now) == [kind |-> "partial", content |-> Null, mtime |-> now]
Written(idx, now) == [kind |-> "ok", content |-> idx, mtime |-> now]

\* What the last call did: op its name, ok whether it returned (FALSE: it
\* threw), ret the boolean it returned or computed. since tells how the
\* corpus stands to the last rebuild: "rebuilt" right after a rebuild(),
\* "again" right after a rebuild() that directly followed a rebuild(),
\* "touched" when since the rebuild one file's fingerprint has changed and
\* nothing else has happened, "none" otherwise.
Outcome(op, ok, ret) ==
  [op |-> op, ok |-> ok, ret |-> ret,
   since |-> IF op = "rebuild"
               THEN (IF result.since \in {"rebuilt", "again"} THEN "again" ELSE "rebuilt")
             ELSE IF op = "write" /\ ret /\ result.since \in {"rebuilt", "again"}
               THEN "touched"
             ELSE "none"]

----------------------------------------------------------------------------
(* index-manager.ts: load, save *)

\* A load that rethrows ENOENT like any other error.
load_RethrowsENOENT ==
  IF index # Null THEN [ok |-> TRUE, index |-> index]
  ELSE IF indexFile.kind = "ok" THEN [ok |-> TRUE, index |-> indexFile.content]
  ELSE [ok |-> FALSE, index |-> Null]

\* load(): the cached index if there is one; else the parsed file; ENOENT
\* gives a new empty index; any other error (JSON.parse) is rethrown.
load ==
  IF index # Null THEN [ok |-> TRUE, index |-> index]
  ELSE CASE indexFile.kind = "ok" -> [ok |-> TRUE, index |-> indexFile.content]
         [] indexFile.kind = "absent" -> [ok |-> TRUE, index |-> EmptyIndex(clock)]
         [] OTHER -> [ok |-> FALSE, index |-> Null]

\* save(), first statement: this.index.lastUpdated = new Date()
Stamp(idx) == [idx EXCEPT !.lastUpdated = clock]

\* save() as one step: both writeFile calls have completed.
Saved(idx) ==
  LET stamped == Stamp(idx)
  IN /\ index' = stamped
     /\ tmpFile' = Written(stamped, clock)
     /\ indexFile' = Written(stamped, clock)

----------------------------------------------------------------------------
(* index-manager.ts: addNoteToIndex, rebuildTagCounts, rebuild *)

\* for (const tag of metadata.tags) tags[tag] = (tags[tag] || 0) + 1
IncTags(tags, ts) ==
  [t \in (DOMAIN tags) \cup ts |-> TagCount(tags, t) + (IF t \in ts THEN 1 ELSE 0)]

\* addNoteToIndex(idx, abs) when readFile and stat succeed. The corpus has no
\* frontmatter dates: modified is the file's mtime as a Date, mtime the same
\* instant as a number (fileStats.mtimeMs), the modification fingerprint.
addNoteToIndex(idx, abs) ==
  LET rel == getRelativePath(abs)
      entry == [path |-> rel, tags |-> fs[rel].tags,
                modified |-> fs[rel].mtime, mtime |-> fs[rel].mtime]
  IN [idx EXCEPT !.notes = Append(idx.notes, entry),
                 !.tags = IncTags(idx.tags, entry.tags)]

RECURSIVE CountTags(_)
CountTags(notes) ==
  IF notes = <<>> THEN EmptyTags
  ELSE IncTags(CountTags(SubSeq(notes, 1, Len(notes) - 1)), notes[Len(notes)].tags)

\* rebuildTagCounts(): tags = {} and recount every record.
rebuildTagCounts(idx) == [idx EXCEPT !.tags = CountTags(idx.notes)]

\* const allZones in rebuild() and in isStale()
RebuildZones == <<"scratchpad", "inbox", "notes", "daily", "maps">>
StaleZones == <<"scratchpad", "inbox", "notes", "daily", "maps">>

\* The list of the values of a function on 1..n.
AsList(f) == f \o <<>>

RECURSIVE FlattenList(_)
FlattenList(ss) == IF ss = <<>> THEN <<>> ELSE Head(ss) \o FlattenList(Tail(ss))

Flatten(ss) == FlattenList(AsList(ss))

\* The paths one zone contributes to a scan: the scratchpad file itself, or
\* the glob of each of the zone's directories (try { glob } catch { skip }).
ZoneTargets(zone) ==
  IF zone = "scratchpad" THEN <<getZonePath("scratchpad")>>
  ELSE Flatten([i \in 1..Len(getZonePaths(zone)) |->
                  IF GlobFails(getZonePaths(zone)[i]) THEN <<>>
                  ELSE Glob(getZonePaths(zone)[i])])

ScanTargets(zones) == Flatten([i \in 1..Len(zones) |-> ZoneTargets(zones[i])])

\* try { await addNoteToIndex(newIndex, file) } catch { skip } over a list.
RECURSIVE AddAll(_, _)
AddAll(idx, targets) ==
  IF targets = <<>> THEN idx
  ELSE AddAll(IF CanRead(Head(targets)) THEN addNoteToIndex(idx, Head(targets)) ELSE idx,
              Tail(targets))

\* A rebuild that starts from the tag counts of the index it replaces.
rebuild_KeepsCounts ==
  AddAll([EmptyIndex(clock) EXCEPT !.tags = IF index = Null THEN EmptyTags ELSE index.tags],
         ScanTargets(RebuildZones))

\* rebuild(): the new in-memory index, before save().
rebuild == AddAll(EmptyIndex(clock), ScanTargets(RebuildZones))

----------------------------------------------------------------------------
(* index-manager.ts: isStale *)

\* isStale() after a successful load().
isStale(idx) ==
  IF Len(idx.notes) = 0 THEN TRUE
  ELSE IF indexFile.kind = "absent" THEN TRUE
  ELSE LET targets == ScanTargets(StaleZones)
       IN \E i \in 1..Len(targets) :
            /\ Listed(targets[i])
            /\ fs[getRelativePath(targets[i])].mtime > indexFile.mtime

----------------------------------------------------------------------------
(* index-manager.ts: update, invalidate *)

\* this.index.notes.filter(note => note.path !== notePath)
RemovePath(idx, notePath) ==
  [idx EXCEPT !.notes = SelectSeq(idx.notes, LAMBDA n : n.path # notePath)]

\* this.index.notes.filter(note => !paths.includes(note.path))
RemovePaths(idx, paths) ==
  [idx EXCEPT !.notes = SelectSeq(idx.notes, LAMBDA n : n.path \notin paths)]

\* One more change of the corpus, one more call: within the model's bounds.
EnvStep ==
  /\ nWrites < MaxWrites
  /\ nWrites' = nWrites + 1
  /\ UNCHANGED nCalls

CallStep ==
  /\ nCalls < MaxCalls
  /\ nCalls' = nCalls + 1
  /\ UNCHANGED nWrites

\* Nothing fails to read, no query has been made, no search is under way.
NoOut ==
  [op |-> "none", args |-> <<>>, ok |-> TRUE, calls |-> <<>>, loads |-> <<>>,
   ret |-> <<>>]

NoStream == [state |-> "none"]

\* cache.get(path) is undefined.
NotCached == [has |-> FALSE, tags |-> {}, mtime |-> 0]

EngineInit ==
  /\ faults = NoFaults
  /\ out = NoOut
  /\ cache = [p \in FileSet |-> NotCached]
  /\ library = <<>>
  /\ stream = NoStream

----------------------------------------------------------------------------
(* Initial state: an empty corpus, a new IndexManager, and either no index  *)
(* file or a damaged one left on disk.                                      *)

Init ==
  /\ fs = [p \in FileSet |-> NoFile]
  /\ clock = 0
  /\ index = Null
  /\ indexFile \in {Absent, Corrupt}
  /\ tmpFile = Absent
  /\ result = [op |-> "new", ok |-> TRUE, ret |-> FALSE, since |-> "none"]
  /\ pc = "idle"
  /\ nWrites = 0
  /\ nCalls = 0
  /\ EngineInit

----------------------------------------------------------------------------
(* The environment *)

\* Another component writes a note (create or overwrite); its mtime is now.
\* ret: the file's fingerprint (existence, mtime) changed.
WriteFile(p, ts) ==
  /\ pc = "idle"
  /\ EnvStep
  /\ fs' = [fs EXCEPT ![p] = [exists |-> TRUE, tags |-> ts, mtime |-> clock]]
  /\ fs' # fs
  /\ result' = Outcome("write", TRUE, ~fs[p].exists \/ fs[p].mtime # clock)
  /\ UNCHANGED <<clock, index, indexFile, tmpFile, pc>>
  /\ UNCHANGED engine

DeleteFile(p) ==
  /\ pc = "idle"
  /\ EnvStep
  /\ fs[p].exists
  /\ fs' = [fs EXCEPT ![p] = NoFile]
  /\ result' = Outcome("delete", TRUE, FALSE)
  /\ UNCHANGED <<clock, index, indexFile, tmpFile, pc>>
  /\ UNCHANGED engine

Tick ==
  /\ clock < MaxClock
  /\ clock' = clock + 1
  /\ UNCHANGED <<fs, index, indexFile, tmpFile, result, pc, nWrites, nCalls>>
  /\ UNCHANGED engine

\* The server process is restarted: a new IndexManager, index = null.
Restart ==
  /\ pc = "idle"
  /\ CallStep
  /\ index # Null
  /\ index' = Null
  /\ result' = Outcome("new", TRUE, FALSE)
  /\ UNCHANGED <<fs, clock, indexFile, tmpFile, pc>>
  /\ UNCHANGED engine

----------------------------------------------------------------------------
(* The operations of IndexManager, each run to completion *)

Load ==
  /\ pc = "idle"
  /\ CallStep
  /\ index' = load.index
  /\ result' = Outcome("load", load.ok, FALSE)
  /\ UNCHANGED <<fs, clock, indexFile, tmpFile, pc>>
  /\ UNCHANGED engine

IsStale ==
  /\ pc = "idle"
  /\ CallStep
  /\ index' = load.index
  /\ result' = Outcome("isStale", load.ok, load.ok /\ isStale(load.index))
  /\ UNCHANGED <<fs, clock, indexFile, tmpFile, pc>>
  /\ UNCHANGED engine

Rebuild ==
  /\ pc = "idle"
  /\ CallStep
  /\ Saved(rebuild)
  /\ result' = Outcome("rebuild", TRUE, FALSE)
  /\ UNCHANGED <<fs, clock, pc>>
  /\ UNCHANGED engine

\* update(notePath): load; drop the record whose path is notePath; index the
\* file at join(base, notePath) and save. A failure to read the file is
\* logged and swallowed: the call returns, nothing is saved.
Update(notePath) ==
  /\ pc = "idle"
  /\ CallStep
  /\ IF ~load.ok
       THEN /\ result' = Outcome("update", FALSE, FALSE)
            /\ UNCHANGED <<index, indexFile, tmpFile>>
       ELSE LET removed == RemovePath(load.index, notePath)
                fullPath == Join(BasePath, notePath)
            IN /\ result' = Outcome("update", TRUE, CanRead(fullPath))
               /\ IF CanRead(fullPath)
                    THEN Saved(addNoteToIndex(removed, fullPath))
                    ELSE /\ index' = removed
                         /\ UNCHANGED <<indexFile, tmpFile>>
  /\ UNCHANGED <<fs, clock, pc>>
  /\ UNCHANGED engine

\* invalidate(paths): load; drop the records whose path is in paths; if any
\* was dropped, recount the tags and save.
Invalidate(paths) ==
  /\ pc = "idle"
  /\ CallStep
  /\ IF ~load.ok
       THEN /\ result' = Outcome("invalidate", FALSE, FALSE)
            /\ UNCHANGED <<index, indexFile, tmpFile>>
       ELSE LET removed == RemovePaths(load.index, paths)
            IN /\ result' = Outcome("invalidate", TRUE,
                                    Len(removed.notes) # Len(load.index.notes))
               /\ IF Len(removed.notes) # Len(load.index.notes)
                    THEN Saved(rebuildTagCounts(removed))
                    ELSE /\ index' = removed
                         /\ UNCHANGED <<indexFile, tmpFile>>
  /\ UNCHANGED <<fs, clock, pc>>
  /\ UNCHANGED engine

Next ==
  \/ \E p \in FileSet, ts \in Contents : WriteFile(p, ts)
  \/ \E p \in FileSet : DeleteFile(p)
  \/ Tick
  \/ Restart
  \/ Load
  \/ IsStale
  \/ Rebuild
  \/ \E p \in UpdateArgs : Update(p)
  \/ \E ps \in SUBSET FileSet : Invalidate(ps)

Spec == Init /\ [][Next]_vars

----------------------------------------------------------------------------
(* save() step by step, with a reader of the index file: SaveSpec *)

\* rebuild() up to its call of save(): the new index is in memory.
BeginRebuild ==
  /\ pc = "idle"
  /\ CallStep
  /\ index' = Stamp(rebuild)
  /\ pc' = "writeTmp"
  /\ result' = Outcome("rebuild", TRUE, FALSE)
  /\ UNCHANGED <<fs, clock, indexFile, tmpFile>>
  /\ UNCHANGED engine

\* update(notePath) up to its call of save(), for a readable file.
BeginUpdate(notePath) ==
  /\ pc = "idle"
  /\ CallStep
  /\ load.ok
  /\ CanRead(Join(BasePath, notePath))
  /\ index' = Stamp(addNoteToIndex(RemovePath(load.index, notePath),
                                   Join(BasePath, notePath)))
  /\ pc' = "writeTmp"
  /\ result' = Outcome("update", TRUE, TRUE)
  /\ UNCHANGED <<fs, clock, indexFile, tmpFile>>
  /\ UNCHANGED engine

\* await writeFile(tempPath, JSON.stringify(this.index))
SaveWriteTmp ==
  /\ pc = "writeTmp"
  /\ tmpFile' = Written(index, clock)
  /\ pc' = "openIndex"
  /\ UNCHANGED <<fs, clock, index, indexFile, result, nWrites, nCalls>>
  /\ UNCHANGED engine

\* await writeFile(this.indexPath, ...), first half: the file is opened for
\* writing, which truncates it.
SaveOpenIndex ==
  /\ pc = "openIndex"
  /\ indexFile' = Partial(clock)
  /\ pc' = "writeIndex"
  /\ UNCHANGED <<fs, clock, index, tmpFile, result, nWrites, nCalls>>
  /\ UNCHANGED engine

\* await writeFile(this.indexPath, ...), second half: the data is written.
SaveWriteIndex ==
  /\ pc = "writeIndex"
  /\ indexFile' = Written(index, clock)
  /\ pc' = "idle"
  /\ UNCHANGED <<fs, clock, index, tmpFile, result, nWrites, nCalls>>
  /\ UNCHANGED engine

\* Another process reads the index file. ret: what it read is a complete
\* document (the one before the save or the one after), or no file at all.
ReadIndexFile ==
  /\ result.op # "read"
  /\ result' = Outcome("read", TRUE, indexFile.kind # "partial")
  /\ UNCHANGED <<fs, clock, index, indexFile, tmpFile, pc, nWrites, nCalls>>
  /\ UNCHANGED engine

SaveNext ==
  \/ \E p \in FileSet, ts \in Contents : WriteFile(p, ts)
  \/ \E p \in FileSet : DeleteFile(p)
  \/ Tick
  \/ BeginRebuild
  \/ \E p \in UpdateArgs : BeginUpdate(p)
  \/ SaveWriteTmp
  \/ SaveOpenIndex
  \/ SaveWriteIndex
  \/ ReadIndexFile

SaveSpec == Init /\ [][SaveNext]_vars

----------------------------------------------------------------------------
(* index-manager.ts: query; scanner.ts: the listings answered by the index *)

\* The zones a caller asks for. A segment name of the corpus contains the
\* name of a zone only by being that name, so note.path.includes(`${zone}/`)
\* is: some directory segment of the path is the zone's name; and
\* note.path.includes('scratch.md') is: some segment is scratch.md.
PathIncludes(path, zone) ==
  IF zone = "scratchpad" THEN \E i \in 1..Len(path) : path[i] = "scratch.md"
  ELSE \E i \in 1..(Len(path) - 1) : path[i] = zone

Range(seq) == {seq[i] : i \in 1..Len(seq)}

\* QueryOptions: zones is looked at only when hasZones (options.zones is
\* set); tags is a list; limit 0 is a limit that is not given (undefined).
QueryOptions(hasZones, zones, tags, limit) ==
  [hasZones |-> hasZones, zones |-> zones, tags |-> tags, limit |-> limit]

\* One step of results.sort((a, b) => b.modified - a.modified): the sort is
\* stable, x goes after every record that is not older than it.
InsertByModified(sorted, x) ==
  LET k == Cardinality({i \in 1..Len(sorted) : sorted[i].modified >= x.modified})
  IN SubSeq(sorted, 1, k) \o <<x>> \o SubSeq(sorted, k + 1, Len(sorted))

RECURSIVE SortByModified(_)
SortByModified(recs) ==
  IF recs = <<>> THEN <<>>
  ELSE InsertByModified(SortByModified(SubSeq(recs, 1, Len(recs) - 1)), recs[Len(recs)])

\* ({ mtime, ...metadata }) => metadata
WithoutMtime(rec) == [path |-> rec.path, tags |-> rec.tags, modified |-> rec.modified]

\* A query whose tag filter keeps a note that carries any one of the tags.
query_AnyTag(idx, options) ==
  LET zoned == IF options.hasZones
                 THEN SelectSeq(idx.notes, LAMBDA n :
                        \E z \in options.zones : PathIncludes(n.path, z))
                 ELSE idx.notes
      tagged == IF Len(options.tags) > 0
                  THEN SelectSeq(zoned, LAMBDA n :
                         \E t \in Range(options.tags) : t \in n.tags)
                  ELSE zoned
      sorted == SortByModified(tagged)
      capped == IF options.limit > 0 /\ options.limit < Len(sorted)
                  THEN SubSeq(sorted, 1, options.limit) ELSE sorted
  IN [i \in 1..Len(capped) |-> WithoutMtime(capped[i])]

\* A query that returns the surviving records in the order of the index.
query_Unsorted(idx, options) ==
  LET zoned == IF options.hasZones
                 THEN SelectSeq(idx.notes, LAMBDA n :
                        \E z \in options.zones : PathIncludes(n.path, z))
                 ELSE idx.notes
      tagged == IF Len(options.tags) > 0
                  THEN SelectSeq(zoned, LAMBDA n :
                         \A t \in Range(options.tags) : t \in n.tags)
                  ELSE zoned
      capped == IF options.limit > 0 /\ options.limit < Len(tagged)
                  THEN SubSeq(tagged, 1, options.limit) ELSE tagged
  IN [i \in 1..Len(capped) |-> WithoutMtime(capped[i])]

\* query(options) after a successful load(), with no date range: filter by
\* zones, filter by tags, sort newest first, cut at limit, drop mtime.
query(idx, options) ==
  LET zoned == IF options.hasZones
                 THEN SelectSeq(idx.notes, LAMBDA n :
                        \E z \in options.zones : PathIncludes(n.path, z))
                 ELSE idx.notes
      tagged == IF Len(options.tags) > 0
                  THEN SelectSeq(zoned, LAMBDA n :
                         \A t \in Range(options.tags) : t \in n.tags)
                  ELSE zoned
      sorted == SortByModified(tagged)
      capped == IF options.limit > 0 /\ options.limit < Len(sorted)
                  THEN SubSeq(sorted, 1, options.limit) ELSE sorted
  IN [i \in 1..Len(capped) |-> WithoutMtime(capped[i])]

\* zones.getDefaultSearchZones(): the zones with searchByDefault.
getDefaultSearchZones == {"notes", "daily", "maps"}

\* A scan that answers from the index as it is, stale or not.
freshIndex_NoRebuild(idx) == idx

\* if (await this.indexManager.isStale()) await this.indexManager.rebuild():
\* the index the listing then reads.
freshIndex(idx) == IF isStale(idx) THEN Stamp(rebuild) ELSE idx

\* The IndexManager calls a listing makes, in order, before its queries.
freshCalls(idx) == IF isStale(idx) THEN <<"isStale", "rebuild">> ELSE <<"isStale">>

\* The 'any' branch of listByTagsOptimized: one query per tag, a record is
\* taken the first time its path is seen.
RECURSIVE MergeByPath(_, _)
MergeByPath(acc, recs) ==
  IF recs = <<>> THEN acc
  ELSE MergeByPath(IF \E i \in 1..Len(acc) : acc[i].path = Head(recs).path
                     THEN acc ELSE Append(acc, Head(recs)),
                   Tail(recs))

RECURSIVE AnyOf(_, _, _, _)
AnyOf(idx, zones, tags, acc) ==
  IF tags = <<>> THEN acc
  ELSE AnyOf(idx, zones, Tail(tags),
             MergeByPath(acc, query(idx, QueryOptions(TRUE, zones, <<Head(tags)>>, 0))))

\* listByTagsOptimized(tags, matchMode, 'modified', zones) on the index it
\* reads; hasZones FALSE is zones undefined.
listByTagsOptimized(idx, tags, matchMode, hasZones, zones) ==
  LET zonesToSearch == IF hasZones THEN zones ELSE getDefaultSearchZones
  IN IF matchMode = "all"
       THEN query(idx, QueryOptions(TRUE, zonesToSearch, tags, 0))
       ELSE SortByModified(AnyOf(idx, zonesToSearch, tags, <<>>))

Returned(op, ok, calls, ret) ==
  [op |-> op, args |-> <<>>, ok |-> ok, calls |-> calls, loads |-> <<>>,
   ret |-> ret]

\* The inputs of the queries; the empty set of zones stands for no zones
\* given (options.zones undefined).
MaxLimit == 1
MaxNotes == 2
ZoneSets == {{"notes"}, {"notes", "scratchpad"}}
QueryZones == ZoneSets \cup {{"scratchpad"}, {}}
ListZones == {{}, {"notes", "scratchpad"}}
QueryTags == {<<>>, <<"t1">>, <<"t2">>, <<"t1", "t2">>}
TagLists == QueryTags \cup {<<"t2", "t1">>}

\* A caller of IndexManager.query(options).
Query(options) ==
  /\ pc = "idle"
  /\ CallStep
  /\ index' = load.index
  /\ result' = Outcome("query", load.ok, FALSE)
  /\ out' = IF load.ok THEN Returned("query", TRUE, <<"query">>, query(load.index, options))
            ELSE Returned("query", FALSE, <<>>, <<>>)
  /\ UNCHANGED <<fs, clock, indexFile, tmpFile, pc, faults, cache, library, stream>>

\* scanZonesMetadata(zones): rebuild if stale, then query({ zones }).
ScanZonesMetadata(zones) ==
  /\ pc = "idle"
  /\ CallStep
  /\ result' = Outcome("scanZonesMetadata", load.ok, FALSE)
  /\ IF ~load.ok
       THEN /\ out' = Returned("scanZonesMetadata", FALSE, <<>>, <<>>)
            /\ UNCHANGED <<index, indexFile, tmpFile>>
       ELSE LET loaded == load.index
                stale == isStale(loaded)
                fresh == freshIndex(loaded)
            IN /\ out' = Returned("scanZonesMetadata", TRUE,
                                  Append(freshCalls(loaded), "query"),
                                  query(fresh, QueryOptions(TRUE, zones, <<>>, 0)))
               /\ IF stale
                    THEN Saved(fresh)
                    ELSE /\ index' = fresh
                         /\ UNCHANGED <<indexFile, tmpFile>>
  /\ UNCHANGED <<fs, clock, pc, faults, cache, library, stream>>

\* listByTagsOptimized(tags, matchMode, 'modified', zones): rebuild if stale,
\* then the query or queries of the match mode.
ListByTagsOptimized(tags, matchMode, hasZones, zones) ==
  /\ pc = "idle"
  /\ CallStep
  /\ result' = Outcome("listByTagsOptimized", load.ok, matchMode = "all")
  /\ IF ~load.ok
       THEN /\ out' = Returned("listByTagsOptimized", FALSE, <<>>, <<>>)
            /\ UNCHANGED <<index, indexFile, tmpFile>>
       ELSE LET loaded == load.index
                stale == isStale(loaded)
                fresh == freshIndex(loaded)
            IN /\ out' = Returned("listByTagsOptimized", TRUE,
                                  Append(freshCalls(loaded), "query"),
                                  listByTagsOptimized(fresh, tags, matchMode,
                                                      hasZones, zones))
               /\ IF stale
                    THEN Saved(fresh)
                    ELSE /\ index' = fresh
                         /\ UNCHANGED <<indexFile, tmpFile>>
  /\ UNCHANGED <<fs, clock, pc, faults, cache, library, stream>>

\* The records an index can hold: update() indexes any file of the corpus,
\* at the end of the list, whatever the list holds already.
Records ==
  {[path |-> p, tags |-> ts, modified |-> m, mtime |-> m] :
     p \in FileSet, ts \in Contents, m \in 0..MaxClock}

RecordLists == UNION {[1..n -> Records] : n \in 0..MaxNotes}

\* QuerySpec: an index of up to MaxNotes records, saved; one query is made.
QueryInit ==
  /\ fs = [p \in FileSet |-> NoFile]
  /\ clock = MaxClock
  /\ \E recs \in RecordLists :
       /\ index = [EmptyIndex(MaxClock) EXCEPT !.notes = recs, !.tags = CountTags(recs)]
       /\ indexFile = Written(index, MaxClock)
  /\ tmpFile = indexFile
  /\ result = [op |-> "new", ok |-> TRUE, ret |-> FALSE, since |-> "none"]
  /\ pc = "idle"
  /\ nWrites = MaxWrites
  /\ nCalls = MaxCalls - 1
  /\ EngineInit

QueryNext ==
  \/ \E zs \in QueryZones, ts \in QueryTags, n \in 0..MaxLimit :
       Query(QueryOptions(zs # {}, zs, ts, n))
  \/ \E ts \in TagLists, m \in {"all", "any"}, zs \in ListZones :
       ListByTagsOptimized(ts, m, zs # {}, zs)

QuerySpec == QueryInit /\ [][QueryNext]_vars

----------------------------------------------------------------------------
(* The scanner's metadata query over a changing corpus: ScanSpec *)

ScanNext ==
  \/ \E p \in FileSet, ts \in Contents : WriteFile(p, ts)
  \/ \E p \in FileSet : DeleteFile(p)
  \/ Tick
  \/ \E zs \in ZoneSets : ScanZonesMetadata(zs)

ScanSpec == Init /\ [][ScanNext]_vars

\* The same with the write operations' notification, update(path).
ZoneNext ==
  \/ \E p \in FileSet, ts \in Contents : WriteFile(p, ts)
  \/ \E p \in FileSet : DeleteFile(p)
  \/ Tick
  \/ \E p \in UpdateArgs : Update(p)
  \/ \E zs \in ZoneSets : ScanZonesMetadata(zs)

ZoneSpec == Init /\ [][ZoneNext]_vars

----------------------------------------------------------------------------
(* A corpus whose files can be put back: TouchSpec *)

\* A note file is replaced by an older copy of it (moved or copied back with
\* its times kept, or synchronised from another machine): stat then reports
\* the copy's modification time m, which is earlier than the one it had.
RestoreFile(p, ts, m) ==
  /\ pc = "idle"
  /\ EnvStep
  /\ fs[p].exists
  /\ m < fs[p].mtime
  /\ fs' = [fs EXCEPT ![p] = [exists |-> TRUE, tags |-> ts, mtime |-> m]]
  /\ result' = Outcome("restore", TRUE, TRUE)
  /\ UNCHANGED <<clock, index, indexFile, tmpFile, pc>>
  /\ UNCHANGED engine

TouchNext ==
  \/ \E p \in FileSet, ts \in Contents : WriteFile(p, ts)
  \/ \E p \in FileSet, ts \in Contents, m \in 0..MaxClock : RestoreFile(p, ts, m)
  \/ Tick
  \/ Rebuild
  \/ \E p \in FileSet : Update(p)

TouchSpec == Init /\ [][TouchNext]_vars

----------------------------------------------------------------------------
(* scanner.ts: scanZones and loadNote, with files and directories that    *)
(* fail to read: FaultSpec                                                *)

\* loadNote(abs) with useCache: the cached note when the file has not been
\* modified since it was cached (stat throws when the file is gone); else
\* read, stat and parse, which may throw, and cache the note.
loadNote(c, abs) ==
  LET rel == getRelativePath(abs)
      known == rel \in FileSet
  IN IF known /\ c[rel].has /\ ~Listed(abs)
       THEN [ok |-> FALSE, note |-> Null, cache |-> c]
     ELSE IF known /\ c[rel].has /\ fs[rel].mtime <= c[rel].mtime
       THEN [ok |-> TRUE,
             note |-> [path |-> rel, tags |-> c[rel].tags, modified |-> c[rel].mtime],
             cache |-> c]
     ELSE IF CanRead(abs)
       THEN [ok |-> TRUE,
             note |-> [path |-> rel, tags |-> fs[rel].tags, modified |-> fs[rel].mtime],
             cache |-> [c EXCEPT ![rel] = [has |-> TRUE, tags |-> fs[rel].tags,
                                          mtime |-> fs[rel].mtime]]]
     ELSE [ok |-> FALSE, note |-> Null, cache |-> c]

\* try { notes.push(await loadNote(file)) } catch { log } over a list of files.
RECURSIVE LoadAll(_, _)
LoadAll(acc, files) ==
  IF files = <<>> THEN acc
  ELSE LET got == loadNote(acc.cache, Head(files))
       IN LoadAll(IF got.ok
                    THEN [acc EXCEPT !.notes = Append(acc.notes, got.note),
                                     !.cache = got.cache]
                    ELSE acc,
                  Tail(files))

\* The directories scanZones globs for one zone (none for the scratchpad).
ZoneDirs(zone) == IF zone = "scratchpad" THEN <<>> ELSE getZonePaths(zone)

\* scanZones(zones): zone after zone, the scratchpad file or the glob of each
\* directory of the zone; the glob is awaited outside any try, so that a
\* glob that throws ends the scan (acc.ok FALSE: the promise rejects).
RECURSIVE scanZones(_, _)
scanZones(acc, zones) ==
  IF zones = <<>> \/ ~acc.ok THEN acc
  ELSE scanZones(
         IF Head(zones) = "scratchpad"
           THEN LoadAll(acc, <<getZonePath("scratchpad")>>)
         ELSE IF \E i \in 1..Len(ZoneDirs(Head(zones))) : GlobFails(ZoneDirs(Head(zones))[i])
           THEN [LoadAll(acc,
                   Flatten([i \in 1..Len(ZoneDirs(Head(zones))) |->
                     IF \E k \in 1..i : GlobFails(ZoneDirs(Head(zones))[k])
                       THEN <<>> ELSE Glob(ZoneDirs(Head(zones))[i])]))
                 EXCEPT !.ok = FALSE]
         ELSE LoadAll(acc, ZoneTargets(Head(zones))),
         Tail(zones))

\* The zone lists the scans are called with, and the directories and files
\* that can fail.
ScanLists == {<<"notes">>, <<"inbox", "notes">>, <<"scratchpad", "archive", "notes">>}
FailingDirs == {Join(BasePath, <<"inbox", "quick">>), Join(BasePath, <<"archive">>)}

\* A note file becomes unreadable or unparseable for the scanner (its
\* permissions, or a frontmatter block that gray-matter rejects).
BreakFile(p) ==
  /\ EnvStep
  /\ fs[p].exists
  /\ p \notin faults.files
  /\ faults' = [faults EXCEPT !.files = @ \cup {p}]
  /\ UNCHANGED <<fs, clock, index, indexFile, tmpFile, result, pc, out, cache,
                 library, stream>>

\* The listing of a zone directory starts to fail.
BreakDir(dir) ==
  /\ EnvStep
  /\ dir \notin faults.dirs
  /\ faults' = [faults EXCEPT !.dirs = @ \cup {dir}]
  /\ UNCHANGED <<fs, clock, index, indexFile, tmpFile, result, pc, out, cache,
                 library, stream>>

\* A caller of scanZones(zones).
ScanZones(zones) ==
  /\ CallStep
  /\ LET done == scanZones([ok |-> TRUE, notes |-> <<>>, cache |-> cache], zones)
     IN /\ out' = Returned("scanZones", done.ok, <<>>,
                           IF done.ok THEN done.notes ELSE <<>>)
        /\ cache' = done.cache
  /\ result' = Outcome("scanZones", TRUE, FALSE)
  /\ UNCHANGED <<fs, clock, index, indexFile, tmpFile, pc, faults, library, stream>>

FaultNext ==
  \/ \E p \in FileSet, ts \in Contents : WriteFile(p, ts)
  \/ \E p \in FileSet : BreakFile(p)
  \/ \E dir \in FailingDirs : BreakDir(dir)
  \/ Rebuild
  \/ \E zs \in ScanLists : ScanZones(zs)

FaultSpec == Init /\ [][FaultNext]_vars

----------------------------------------------------------------------------
(* scanner.ts: search and its scoring: SearchSpec                         *)
(* A string is the sequence of its characters; the paragraph separator    *)
(* "\n\n" of a note's content is the one element Para.                    *)

Para == "\n\n"

toLowerCase(s) == AsList([i \in DOMAIN s |-> IF s[i] = "A" THEN "a" ELSE s[i]])

\* s.includes(q)
Includes(s, q) ==
  /\ Len(q) <= Len(s)
  /\ \E i \in 0..(Len(s) - Len(q)) : SubSeq(s, i + 1, i + Len(q)) = q

\* s.split(/\s+/): the words between runs of spaces, the empty word before a
\* leading and after a trailing run included.
RECURSIVE SplitFrom(_, _, _, _)
SplitFrom(s, cur, words, afterSpace) ==
  IF s = <<>> THEN Append(words, cur)
  ELSE IF Head(s) = " "
    THEN IF afterSpace THEN SplitFrom(Tail(s), cur, words, TRUE)
         ELSE SplitFrom(Tail(s), <<>>, Append(words, cur), TRUE)
  ELSE SplitFrom(Tail(s), Append(cur, Head(s)), words, FALSE)

split(s) == SplitFrom(s, <<>>, <<>>, FALSE)

\* (s.match(new RegExp(q, 'g')) || []).length for a query of plain characters:
\* the matches found from left to right, none overlapping another.
RECURSIVE CountMatches(_, _)
CountMatches(s, q) ==
  IF Len(s) < Len(q) THEN 0
  ELSE IF SubSeq(s, 1, Len(q)) = q
    THEN 1 + CountMatches(SubSeq(s, Len(q) + 1, Len(s)), q)
  ELSE CountMatches(Tail(s), q)

\* content.split('\n\n')[0]
RECURSIVE firstParagraph(_)
firstParagraph(content) ==
  IF content = <<>> \/ Head(content) = Para THEN <<>>
  ELSE <<Head(content)>> \o firstParagraph(Tail(content))

\* DEFAULT_SCORING_WEIGHTS and CONFIDENCE_THRESHOLD. Scores are kept in
\* units of 1/Scale, which makes titleWordMatch / 2 and the recency boost of
\* a whole number of days integers.
Scale == 6
exactTitleMatch == 200
titleWordMatch == 50
exactTagMatch == 20
contentFirstParagraph == 5
contentMatch == 1
recencyBoost == 10
CONFIDENCE_THRESHOLD == 25
DefaultLimit == 20
maxAge == 30

zoneBoost(zone) ==
  CASE zone = "notes" -> 5
    [] zone = "daily" -> 3
    [] zone = "inbox" -> 1
    [] zone = "archive" -> 0
    [] zone = "scratchpad" -> 2
    [] zone = "maps" -> 4
    [] OTHER -> 0

\* getZoneFromPath(path): the first segment when it names a directory zone,
\* scratchpad when the path contains that word, else notes.
getZoneFromPath(path) ==
  IF path[1] \in {"notes", "daily", "inbox", "archive", "maps"} THEN path[1]
  ELSE IF \E i \in 1..Len(path) : path[i] = "scratchpad" THEN "scratchpad"
  ELSE "notes"

\* weights.recencyBoost * Math.max(0, 1 - age / maxAge), age in days.
Recency(modified) ==
  LET age == clock - modified
  IN IF age >= maxAge THEN 0
     ELSE (Scale * recencyBoost * (maxAge - age)) \div maxAge

\* options.tags.filter(tag => note.tags.includes(tag))
exactTagMatches(noteTags, tags) == SelectSeq(tags, LAMBDA t : t \in noteTags)

\* The title part of scoreNoteEnhanced: an exact title, else the query's
\* words found among the title's words, else a substring.
TitleScore(title, q) ==
  LET titleLower == toLowerCase(title)
      queryLower == toLowerCase(q)
      titleWords == split(titleLower)
      wordMatches == SelectSeq(split(queryLower),
                               LAMBDA qw : \E k \in 1..Len(titleWords) : titleWords[k] = qw)
  IN IF titleLower = queryLower THEN Scale * exactTitleMatch
     ELSE IF Includes(titleLower, queryLower)
       THEN IF Len(wordMatches) > 0
              THEN Scale * Len(wordMatches) * titleWordMatch
              ELSE (Scale * titleWordMatch) \div 2
     ELSE 0

\* The content part of scoreNoteEnhanced.
ContentScore(content, q) ==
  LET contentLower == toLowerCase(content)
      queryLower == toLowerCase(q)
      occurrences == CountMatches(contentLower, queryLower)
      firstParagraphMatches == CountMatches(toLowerCase(firstParagraph(content)), queryLower)
  IN IF Includes(contentLower, queryLower)
       THEN Scale * (firstParagraphMatches * contentFirstParagraph
                     + (occurrences - firstParagraphMatches) * contentMatch)
     ELSE 0

\* scoreNoteEnhanced(note, options).score; a query of no character is no
\* query to the code (!options.query).
scoreNoteEnhanced(note, options) ==
  IF options.query = <<>> THEN 0
  ELSE Scale * Len(exactTagMatches(note.tags, options.tags)) * exactTagMatch
       + TitleScore(note.title, options.query)
       + ContentScore(note.content, options.query)
       + Scale * zoneBoost(getZoneFromPath(note.path))
       + Recency(note.modified)

\* scoreMetadataOnly(metadata, options).score
scoreMetadataOnly(metadata, options) ==
  Scale * Len(exactTagMatches(metadata.tags, options.tags)) * exactTagMatch
  + Scale * zoneBoost(getZoneFromPath(metadata.path))
  + Recency(metadata.modified)

\* The characters of a tag.
TagChars(tag) == IF tag = "t1" THEN <<"t", "1">> ELSE <<"t", "2">>

\* A preFilterCandidates that keeps every note.
preFilterCandidates_KeepAll(metadata, options) == metadata

\* title.toLowerCase().includes(queryLower), and the same of some tag.
titleMatch(m, q) == Includes(toLowerCase(m.title), toLowerCase(q))
tagMatch(m, q) == \E t \in m.tags : Includes(toLowerCase(TagChars(t)), toLowerCase(q))

\* preFilterCandidates(metadata, options), called with a query.
preFilterCandidates(metadata, options) ==
  SelectSeq(metadata, LAMBDA m : titleMatch(m, options.query) \/ tagMatch(m, options.query))

\* The score sortByExpectedRelevance gives a candidate.
ExpectedRelevance(m, options) ==
  Scale * zoneBoost(getZoneFromPath(m.path))
  + (IF titleMatch(m, options.query) THEN Scale * 100 ELSE 0)
  + (IF toLowerCase(m.title) = toLowerCase(options.query) THEN Scale * 200 ELSE 0)
  + (IF tagMatch(m, options.query) THEN Scale * 50 ELSE 0)
  + Recency(m.modified)

\* array.sort((a, b) => b.score - a.score): stable, highest score first.
InsertByScore(sorted, x) ==
  LET k == Cardinality({i \in 1..Len(sorted) : sorted[i].score >= x.score})
  IN SubSeq(sorted, 1, k) \o <<x>> \o SubSeq(sorted, k + 1, Len(sorted))

RECURSIVE SortByScore(_)
SortByScore(s) ==
  IF s = <<>> THEN <<>>
  ELSE InsertByScore(SortByScore(SubSeq(s, 1, Len(s) - 1)), s[Len(s)])

\* sortByExpectedRelevance(candidates, options)
sortByExpectedRelevance(candidates, options) ==
  LET scored == AsList([i \in DOMAIN candidates |->
                          [note |-> candidates[i],
                           score |-> ExpectedRelevance(candidates[i], options)]])
      sorted == SortByScore(scored)
  IN AsList([i \in DOMAIN sorted |-> sorted[i].note])

\* The note loadNote() parses from the file of a candidate.
NoteAt(path) == CHOOSE n \in Range(library) : n.path = path

Min(a, b) == IF a <= b THEN a ELSE b

\* String.prototype.indexOf, counted from 1; 0 when needle is not in s.
indexOf(s, needle) ==
  LET at == {i \in 1..(Len(s) - Len(needle) + 1) :
               SubSeq(s, i, i + Len(needle) - 1) = needle}
  IN IF at = {} THEN 0 ELSE CHOOSE i \in at : \A j \in at : i <= j

isSpace(c) == c \in {" ", Para}

\* String.prototype.trim.
RECURSIVE trim(_)
trim(s) ==
  IF s = <<>> THEN s
  ELSE IF isSpace(Head(s)) THEN trim(Tail(s))
  ELSE IF isSpace(s[Len(s)]) THEN trim(SubSeq(s, 1, Len(s) - 1))
  ELSE s

\* NoteParser.generateExcerpt of a content without code blocks and markup.
generateExcerpt(content, maxLength) ==
  LET paragraph == firstParagraph(trim(content))
  IN IF Len(paragraph) <= maxLength THEN paragraph
     ELSE Append(SubSeq(paragraph, 1, maxLength), "...")

contextLength == 200

\* generateContextualExcerpt: the text around the first place of the query.
generateContextualExcerpt(content, q) ==
  LET at == indexOf(toLowerCase(content), toLowerCase(q))
      half == contextLength \div 2
      start == IF at - half > 1 THEN at - half ELSE 1
      end == Min(Len(content), at - 1 + Len(q) + half)
  IN IF at = 0 THEN generateExcerpt(content, contextLength)
     ELSE trim((IF start > 1 THEN <<"...">> ELSE <<>>)
               \o SubSeq(content, start, end)
               \o (IF end < Len(content) THEN <<"...">> ELSE <<>>))

\* The result search() pushes for a loaded note that scored above 0.
SearchResult(note, score, options) ==
  [note |-> note.path, score |-> score,
   excerpt |-> generateContextualExcerpt(note.content, options.query)]

\* The early exit of the loop: limit results are kept and the last of the
\* best limit reaches the confidence threshold.
EarlyExit_OnCountAlone(results, limit) == Len(results) >= limit

EarlyExit(results, limit) ==
  /\ Len(results) >= limit
  /\ results[limit].score >= Scale * CONFIDENCE_THRESHOLD

\* The other exit of the loop: enough candidates have been processed.
ProcessedEnough_NoCap(processedCount, total, limit) == processedCount >= total

ProcessedEnough(processedCount, total, limit) ==
  processedCount >= Min(total, limit * 3)

\* The loop of search() over the sorted candidates: load and score one, keep
\* the results sorted, stop on limit results of which the last one reaches
\* the confidence threshold, or on min(candidates, limit * 3) processed.
\* loaded lists the candidates loadNote was called for.
RECURSIVE SearchLoop(_, _, _, _, _, _)
SearchLoop(results, loaded, processedCount, candidates, total, options) ==
  IF candidates = <<>> THEN [results |-> results, loaded |-> loaded]
  ELSE LET limit == IF options.limit # 0 THEN options.limit ELSE DefaultLimit
           note == NoteAt(Head(candidates).path)
           score == scoreNoteEnhanced(note, options)
           pushed == IF score > 0
                       THEN SortByScore(Append(results,
                                               SearchResult(note, score, options)))
                       ELSE results
           loads == Append(loaded, Head(candidates).path)
       IN IF score > 0 /\ EarlyExit(pushed, limit)
            THEN [results |-> pushed, loaded |-> loads]
          ELSE IF ProcessedEnough(processedCount + 1, total, limit)
            THEN [results |-> pushed, loaded |-> loads]
          ELSE SearchLoop(pushed, loads, processedCount + 1, Tail(candidates),
                          total, options)

\* The metadata search() ranks: what scanZonesMetadata returned, filtered by
\* the tags asked for (no dateFrom and no dateTo are given).
filterByTags(allMetadata, options) ==
  IF options.tags # <<>>
    THEN SelectSeq(allMetadata,
           LAMBDA m : \A i \in 1..Len(options.tags) : options.tags[i] \in m.tags)
    ELSE allMetadata

\* The results of search() before the final sort and the cut at the limit,
\* and the candidates it loaded.
Collected(allMetadata, options) ==
  LET filtered == filterByTags(allMetadata, options)
      sortedCandidates ==
        sortByExpectedRelevance(preFilterCandidates(filtered, options), options)
  IN IF options.query # <<>>
       THEN SearchLoop(<<>>, <<>>, 0, sortedCandidates, Len(sortedCandidates), options)
       ELSE [results |->
               AsList([i \in DOMAIN filtered |->
                         [note |-> filtered[i].path,
                          score |-> scoreMetadataOnly(filtered[i], options),
                          excerpt |-> <<>>]]),
             loaded |-> <<>>]

\* A search() that returns what it collected, cut at the limit.
search_NoFinalSort(allMetadata, options) ==
  LET results == Collected(allMetadata, options).results
  IN IF options.limit # 0
       THEN SubSeq(results, 1, Min(options.limit, Len(results)))
       ELSE results

\* A search() that does not cut its sorted results at the limit.
search_Uncut(allMetadata, options) ==
  SortByScore(Collected(allMetadata, options).results)

\* search(options) over the metadata scanZonesMetadata returned, with no
\* dateFrom and no dateTo: filter by tags, collect, sort by score, cut.
search(allMetadata, options) ==
  LET results == SortByScore(Collected(allMetadata, options).results)
  IN IF options.limit # 0
       THEN SubSeq(results, 1, Min(options.limit, Len(results)))
       ELSE results

\* ZoneSearchOptions; the empty query, the empty tag list, limit 0 and the
\* empty set of zones stand for an option that is not given.
SearchOptions(q, tags, limit, zones) ==
  [query |-> q, tags |-> tags, limit |-> limit, zones |-> zones]

\* The metadata of an index record, with the title the record holds.
Metadata(rec) ==
  [path |-> rec.path, title |-> NoteAt(rec.path).title, tags |-> rec.tags,
   modified |-> rec.modified]

\* The candidates search() calls loadNote for until one of them throws: a
\* candidate whose file is gone or does not parse ends the loop, and the
\* search, with its exception.
LoadedUntilThrow(loaded) ==
  LET failing == {i \in 1..Len(loaded) : loaded[i] \in faults.files}
  IN IF failing = {} THEN loaded
     ELSE SubSeq(loaded, 1, CHOOSE i \in failing : \A j \in failing : i <= j)

\* A caller of search(options): scanZonesMetadata(zones), then the search;
\* an exception of loadNote is the outcome of the search.
Search(options) ==
  /\ pc = "idle"
  /\ CallStep
  /\ IF ~load.ok
       THEN /\ out' = [Returned("search", FALSE, <<>>, <<>>) EXCEPT !.args = options]
            /\ UNCHANGED <<index, indexFile, tmpFile>>
       ELSE LET loaded == load.index
                stale == isStale(loaded)
                fresh == freshIndex(loaded)
                zonesToSearch == IF options.zones # {} THEN options.zones
                                 ELSE getDefaultSearchZones
                found == query(fresh, QueryOptions(TRUE, zonesToSearch, <<>>, 0))
                allMetadata == AsList([i \in DOMAIN found |-> Metadata(found[i])])
                loads == Collected(allMetadata, options).loaded
            IN /\ out' = IF \E i \in 1..Len(loads) : loads[i] \in faults.files
                           THEN [Returned("search", FALSE,
                                          Append(freshCalls(loaded), "query"), <<>>)
                                 EXCEPT !.args = options,
                                        !.loads = LoadedUntilThrow(loads)]
                           ELSE [Returned("search", TRUE,
                                          Append(freshCalls(loaded), "query"),
                                          search(allMetadata, options))
                                 EXCEPT !.args = options, !.loads = loads]
               /\ IF stale
                    THEN Saved(fresh)
                    ELSE /\ index' = fresh
                         /\ UNCHANGED <<indexFile, tmpFile>>
  /\ result' = Outcome("search", out'.ok, FALSE)
  /\ UNCHANGED <<fs, clock, pc, faults, cache, library, stream>>

\* The notes of a knowledge base: a title, and one of three variants of
\* zone, tags, content and date in days, of which Today is the day of the
\* search.
Today == 40
Titles == {<<"a">>, <<"a", "e">>,
           <<"a", " ", "b", " ", "c", " ", "d">>,
           <<"a", " ", "b", " ", "c", " ", "d", " ", "E">>}
Queries == {<<>>, <<"a">>, <<"t">>, <<"a", " ", "b", " ", "c", " ", "d">>}
Variants ==
  {[zone |-> "notes", tags |-> {"t1"}, content |-> <<"e">>, modified |-> Today - 5],
   [zone |-> "daily", tags |-> {"t1"}, content |-> <<"e">>, modified |-> Today],
   [zone |-> "notes", tags |-> {"t1", "t2"}, modified |-> 0,
    content |-> <<"A", " ", "b", " ", "c", " ", "d", Para, "a", "a">>]}
NoteNames == <<"n1.md", "n2.md", "n3.md", "n4.md", "n5.md", "n6.md">>
NotePath(i, zone) == <<zone, NoteNames[i]>>
SearchZones == {{}, {"notes"}}

Libraries ==
  UNION {[1..n -> [title : Titles, body : Variants]] : n \in 0..MaxNotes}

Note(i, fields) ==
  [path |-> NotePath(i, fields.body.zone), title |-> fields.title, tags |-> fields.body.tags,
   content |-> fields.body.content, modified |-> fields.body.modified]

\* SearchSpec: a knowledge base of up to MaxNotes notes and its saved index,
\* built on the day of the search; one search is made.
SearchInit ==
  /\ fs = [p \in FileSet |-> NoFile]
  /\ clock = Today
  /\ \E lib \in Libraries :
       /\ library = [i \in DOMAIN lib |-> Note(i, lib[i])]
       /\ index = LET recs == [i \in DOMAIN lib |->
                                 [path |-> NotePath(i, lib[i].body.zone), tags |-> lib[i].body.tags,
                                  modified |-> lib[i].body.modified,
                                  mtime |-> lib[i].body.modified]]
                  IN [EmptyIndex(Today) EXCEPT !.notes = recs, !.tags = CountTags(recs)]
       /\ indexFile = Written(index, Today)
  /\ tmpFile = indexFile
  /\ result = [op |-> "new", ok |-> TRUE, ret |-> FALSE, since |-> "none"]
  /\ pc = "idle"
  /\ nWrites = MaxWrites
  /\ nCalls = MaxCalls - 1
  /\ faults = NoFaults
  /\ out = NoOut
  /\ cache = [p \in FileSet |-> NotCached]
  /\ stream = NoStream

SearchNext ==
  \E q \in Queries, ts \in {<<>>, <<"t2">>}, n \in 0..MaxLimit, zs \in SearchZones :
    Search(SearchOptions(q, ts, n, zs))

SearchSpec == SearchInit /\ [][SearchNext]_vars

\* LoopSpec: knowledge bases of up to MaxCandidates notes, among them notes
\* that match a query in a tag only and score below the threshold, a note
\* that matches it in its body only, and an older note that scores above a
\* newer one; one search with a query is made.
MaxCandidates == 4
LoopVariants ==
  {[title |-> <<"a">>,
    body |-> [zone |-> "notes", tags |-> {"t1"}, content |-> <<"e">>, modified |-> Today]],
   [title |-> <<"A", "e">>,
    body |-> [zone |-> "notes", tags |-> {"t1"}, content |-> <<"e">>, modified |-> Today]],
   [title |-> <<"e">>,
    body |-> [zone |-> "notes", tags |-> {"t1"}, content |-> <<"a">>, modified |-> Today - 5]],
   [title |-> <<"e">>,
    body |-> [zone |-> "notes", tags |-> {"t1"}, content |-> <<"t", "t", "t", "t">>,
              modified |-> 0]]}
LoopLibraries == UNION {[1..n -> LoopVariants] : n \in 0..MaxCandidates}
LoopQueries == {<<"a">>, <<"t">>}

LoopInit ==
  /\ fs = [p \in FileSet |-> NoFile]
  /\ clock = Today
  /\ \E lib \in LoopLibraries :
       /\ library = [i \in DOMAIN lib |-> Note(i, lib[i])]
       /\ index = LET recs == [i \in DOMAIN lib |->
                                 [path |-> NotePath(i, lib[i].body.zone), tags |-> lib[i].body.tags,
                                  modified |-> lib[i].body.modified,
                                  mtime |-> lib[i].body.modified]]
                  IN [EmptyIndex(Today) EXCEPT !.notes = recs, !.tags = CountTags(recs)]
       /\ indexFile = Written(index, Today)
  /\ tmpFile = indexFile
  /\ result = [op |-> "new", ok |-> TRUE, ret |-> FALSE, since |-> "none"]
  /\ pc = "idle"
  /\ nWrites = MaxWrites
  /\ nCalls = MaxCalls - 1
  /\ faults = NoFaults
  /\ out = NoOut
  /\ cache = [p \in FileSet |-> NotCached]
  /\ stream = NoStream

LoopNext ==
  \E q \in LoopQueries, n \in 0..MaxLimit : Search(SearchOptions(q, <<>>, n, {}))

LoopSpec == LoopInit /\ [][LoopNext]_vars

\* The file of an indexed note is deleted, or becomes unparseable, after the
\* note was indexed and before a search.
LoseFile(p) ==
  /\ pc = "idle"
  /\ out.op = "none"
  /\ faults.files = {}
  /\ \E i \in 1..Len(index.notes) : index.notes[i].path = p
  /\ faults' = [faults EXCEPT !.files = {p}]
  /\ UNCHANGED <<fs, clock, index, indexFile, tmpFile, result, pc, nWrites, nCalls,
                 out, cache, library, stream>>

\* LostSpec: the knowledge bases of LoopSpec, of which one note may lose its
\* file before the search.
LostNext ==
  \/ \E i \in 1..Len(index.notes) : LoseFile(index.notes[i].path)
  \/ LoopNext

LostSpec == LoopInit /\ [][LostNext]_vars

\* WeightSpec: knowledge bases of up to MaxNotes notes that are alike but for
\* the zone they are stored in and their date; the scratchpad is the one file
\* scratch.md. One search over all six zones is made, with or without a
\* query.
ZonePath(i, zone) ==
  CASE zone = "scratchpad" -> Scratch
    [] zone = "inbox" -> <<"inbox", "quick", NoteNames[i]>>
    [] OTHER -> <<zone, NoteNames[i]>>

WeightLibraries ==
  {lib \in UNION {[1..n -> [zone : ZONE_CONFIGS, modified : {Today, Today - 5}]] :
                    n \in 0..MaxNotes} :
     \A i, j \in DOMAIN lib : ZonePath(i, lib[i].zone) = ZonePath(j, lib[j].zone) => i = j}

WeightInit ==
  /\ fs = [p \in FileSet |-> NoFile]
  /\ clock = Today
  /\ \E lib \in WeightLibraries :
       /\ library = [i \in DOMAIN lib |->
                       [path |-> ZonePath(i, lib[i].zone), title |-> <<"a">>,
                        tags |-> {"t1"}, content |-> <<"e">>,
                        modified |-> lib[i].modified]]
       /\ index = LET recs == [i \in DOMAIN lib |->
                                 [path |-> ZonePath(i, lib[i].zone), tags |-> {"t1"},
                                  modified |-> lib[i].modified,
                                  mtime |-> lib[i].modified]]
                  IN [EmptyIndex(Today) EXCEPT !.notes = recs, !.tags = CountTags(recs)]
       /\ indexFile = Written(index, Today)
  /\ tmpFile = indexFile
  /\ result = [op |-> "new", ok |-> TRUE, ret |-> FALSE, since |-> "none"]
  /\ pc = "idle"
  /\ nWrites = MaxWrites
  /\ nCalls = MaxCalls - 1
  /\ faults = NoFaults
  /\ out = NoOut
  /\ cache = [p \in FileSet |-> NotCached]
  /\ stream = NoStream

WeightNext ==
  \E q \in {<<>>, <<"a">>} : Search(SearchOptions(q, <<>>, 0, ZONE_CONFIGS))

WeightSpec == WeightInit /\ [][WeightNext]_vars

----------------------------------------------------------------------------
(* The streaming search: the generator searchStreaming, as the             *)
(* specification describes it, and the handler search_knowledge_streaming *)
(* of index.ts that consumes it: StreamSpec                               *)

DefaultStreamingLimit == 20
DefaultBatchSize == 10

\* StreamingSearchOptions as the handler builds them: args.limit || 20 and
\* args.batch_size || 10.
StreamingOptions(q, tags, limit, batchSize) ==
  [query |-> q, tags |-> tags, zones |-> {},
   limit |-> IF limit # 0 THEN limit ELSE DefaultStreamingLimit,
   batchSize |-> IF batchSize # 0 THEN batchSize ELSE DefaultBatchSize]

\* The candidates of a streaming search: the metadata of the zones, filtered
\* by the tags, in the order of expected relevance when there is a query.
StreamCandidates(allMetadata, options) ==
  LET filteredMetadata ==
        IF options.tags # <<>>
          THEN SelectSeq(allMetadata,
                 LAMBDA m : \A i \in 1..Len(options.tags) : options.tags[i] \in m.tags)
          ELSE allMetadata
  IN IF options.query # <<>>
       THEN sortByExpectedRelevance(filteredMetadata, options)
       ELSE filteredMetadata

\* What one candidate adds to the batch being filled: its result when it
\* scores above 0 for the query, and always when there is no query.
StreamResult(m, options) ==
  LET score == IF options.query # <<>>
                 THEN scoreNoteEnhanced(NoteAt(m.path), options)
                 ELSE scoreMetadataOnly(m, options)
  IN IF options.query = <<>> \/ score > 0
       THEN <<[note |-> m.path, score |-> score]>>
       ELSE <<>>

\* The generator's state after the candidate at the head, whose results
\* (one or none) are got.
Processed(gen, got) ==
  [remaining |-> Tail(gen.remaining),
   found |-> gen.found + Len(got),
   processed |-> gen.processed + 1]

RECURSIVE RunToYield(_, _, _)

\* A generator that yields full batches only and takes no account of the
\* limit.
YieldOrGoOn_NoLimit(after, items, got, options) ==
  IF Len(items) >= options.batchSize
    THEN [gen |-> after, results |-> items, finished |-> after.remaining = <<>>]
  ELSE RunToYield(after, items, options)

\* A generator that yields a batch only once it holds more than batchSize
\* results.
YieldOrGoOn_Overfull(after, items, got, options) ==
  IF got # <<>> /\ after.found >= options.limit
    THEN [gen |-> after, results |-> items, finished |-> TRUE]
  ELSE IF Len(items) > options.batchSize
    THEN [gen |-> after, results |-> items, finished |-> after.remaining = <<>>]
  ELSE RunToYield(after, items, options)

\* After a candidate: a batch is yielded when the total found has reached
\* the limit, which ends the search, or when the batch holds batchSize
\* results; else the next candidate is processed.
YieldOrGoOn(after, items, got, options) ==
  IF got # <<>> /\ after.found >= options.limit
    THEN [gen |-> after, results |-> items, finished |-> TRUE]
  ELSE IF Len(items) >= options.batchSize
    THEN [gen |-> after, results |-> items, finished |-> after.remaining = <<>>]
  ELSE RunToYield(after, items, options)

\* The candidate at the head has given got: it joins the batch.
AddToBatch(gen, pending, got, options) ==
  YieldOrGoOn(Processed(gen, got), pending \o got, got, options)

\* The generator from one yield to the next: candidates are processed one by
\* one; what is left when the candidates run out is the last batch.
RunToYield(gen, pending, options) ==
  IF gen.remaining = <<>>
    THEN [gen |-> gen, results |-> pending, finished |-> TRUE]
  ELSE AddToBatch(gen, pending, StreamResult(Head(gen.remaining), options), options)

\* One turn of the handler's for await loop: the generator runs to its next
\* yield; the handler pushes the batch and breaks when the batch's totalFound
\* has reached the limit. A generator that returns without a batch ends the
\* loop.
Advance(gen, batches, options) ==
  LET run == RunToYield(gen, <<>>, options)
      batch == [batch |-> Len(batches) + 1,
                results |-> run.results,
                hasMore |-> ~run.finished,
                totalFound |-> run.gen.found,
                totalProcessed |-> run.gen.processed]
      pushed == IF run.results # <<>> THEN Append(batches, batch) ELSE batches
      break == run.results # <<>> /\ options.limit # 0 /\ batch.totalFound >= options.limit
  IN [state |-> IF run.finished \/ break THEN "done" ELSE "running",
      options |-> options,
      gen |-> run.gen,
      batches |-> pushed]

\* The handler search_knowledge_streaming up to the end of the first turn
\* of its loop: the generator scans the metadata and runs to its first yield.
SearchStreaming(options) ==
  /\ pc = "idle"
  /\ stream.state # "running"
  /\ CallStep
  /\ result' = Outcome("searchStreaming", load.ok, FALSE)
  /\ IF ~load.ok
       THEN /\ out' = [Returned("searchStreaming", FALSE, <<>>, <<>>) EXCEPT !.args = options]
            /\ stream' = NoStream
            /\ UNCHANGED <<index, indexFile, tmpFile>>
       ELSE LET loaded == load.index
                stale == isStale(loaded)
                fresh == freshIndex(loaded)
                found == query(fresh, QueryOptions(TRUE, getDefaultSearchZones, <<>>, 0))
                allMetadata == AsList([i \in DOMAIN found |-> Metadata(found[i])])
                started == Advance([remaining |-> StreamCandidates(allMetadata, options),
                                    found |-> 0, processed |-> 0], <<>>, options)
            IN /\ stream' = started
               /\ out' = [Returned("searchStreaming", TRUE,
                                   Append(freshCalls(loaded), "query"),
                                   IF started.state = "done" THEN started.batches ELSE <<>>)
                          EXCEPT !.args = options]
               /\ IF stale
                    THEN Saved(fresh)
                    ELSE /\ index' = fresh
                         /\ UNCHANGED <<indexFile, tmpFile>>
  /\ UNCHANGED <<fs, clock, pc, faults, cache, library>>

\* A further turn of the handler's loop.
NextBatch ==
  /\ stream.state = "running"
  /\ LET next == Advance(stream.gen, stream.batches, stream.options)
     IN /\ stream' = next
        /\ out' = [out EXCEPT !.ret = IF next.state = "done" THEN next.batches ELSE <<>>]
  /\ UNCHANGED <<fs, clock, index, indexFile, tmpFile, result, pc, nWrites, nCalls,
                 faults, cache, library>>

StreamQueries == {<<>>, <<"a">>, <<"t">>}
BatchSizes == {0, 1}

StreamNext ==
  \/ \E q \in StreamQueries, n \in 0..MaxLimit, b \in BatchSizes :
       SearchStreaming(StreamingOptions(q, <<>>, n, b))
  \/ NextBatch

StreamSpec == SearchInit /\ [][StreamNext]_vars

----------------------------------------------------------------------------
(* The two scans side by side, scanZones and scanZonesMetadata, over a     *)
(* changing corpus: PairSpec                                              *)

\* The zone lists both scans are called with; in the last one a zone is
\* named twice.
ZoneLists == {<<"notes">>, <<"scratchpad", "notes">>}
RepeatedLists == ZoneLists \cup {<<"notes", "notes">>}

\* What scanZones(zones) returns in the current state.
DirectScan(zones) ==
  scanZones([ok |-> TRUE, notes |-> <<>>, cache |-> cache], zones)

PairNext ==
  \/ \E p \in FileSet, ts \in Contents : WriteFile(p, ts)
  \/ \E p \in FileSet : DeleteFile(p)
  \/ Tick
  \/ \E zs \in RepeatedLists : ScanZones(zs)
  \/ \E zs \in RepeatedLists : ScanZonesMetadata(Range(zs))

PairSpec == Init /\ [][PairNext]_vars

----------------------------------------------------------------------------
(* index-manager.ts: two calls in flight at once, each suspended at its     *)
(* awaits: RaceSpec                                                         *)

\* A call of update(notePath) or rebuild() that has been made and has not
\* returned: at is the await it is suspended at, content what its readFile
\* gave, attached whether the index object it passed to addNoteToIndex is
\* still this.index, newIndex the local index of a rebuild().
Called(op) ==
  [op |-> op, at |-> IF op = "update" THEN "load" ELSE "scan", content |-> {},
   attached |-> TRUE, newIndex |-> Null]

\* A rebuild() that listed and read the files before notePath was written,
\* and is about to take its newIndex as this.index.
ScannedBefore(now) == [Called("rebuild") EXCEPT !.at = "assign", !.newIndex = EmptyIndex(now)]

\* The call in flight is now c.
Moved(i, c) == out' = [out EXCEPT !.loads[i] = c]

\* addNoteToIndex(this.index, fullPath) pushes to the object it was given:
\* this.index as it was when update() made the call.
pushTarget(c) == c.attached

\* update(notePath) resumes after load(): the index is in memory; the record
\* of notePath is filtered out and addNoteToIndex(this.index, fullPath)
\* awaits its readFile.
UpdateLoaded(i) ==
  /\ out.op = "overlap"
  /\ out.loads[i].op = "update" /\ out.loads[i].at = "load"
  /\ index' = RemovePath(index, out.args)
  /\ Moved(i, [out.loads[i] EXCEPT !.at = "readFile", !.attached = TRUE])
  /\ UNCHANGED <<fs, clock, indexFile, tmpFile, result, pc, nWrites, nCalls, faults,
                 cache, library, stream>>

\* addNoteToIndex resumes after readFile and awaits stat; a throw is caught
\* and logged by update(), which returns.
UpdateRead(i) ==
  /\ out.op = "overlap"
  /\ out.loads[i].op = "update" /\ out.loads[i].at = "readFile"
  /\ Moved(i, IF fs[out.args].exists
                THEN [out.loads[i] EXCEPT !.at = "stat", !.content = fs[out.args].tags]
                ELSE [out.loads[i] EXCEPT !.at = "returned"])
  /\ UNCHANGED <<fs, clock, index, indexFile, tmpFile, result, pc, nWrites, nCalls,
                 faults, cache, library, stream>>

\* addNoteToIndex resumes after stat: the entry is pushed and its tags are
\* counted in the index object the call was given; update() saves this.index
\* and returns.
UpdateStat(i) ==
  /\ out.op = "overlap"
  /\ out.loads[i].op = "update" /\ out.loads[i].at = "stat"
  /\ Moved(i, [out.loads[i] EXCEPT !.at = "returned"])
  /\ IF fs[out.args].exists
       THEN LET entry == [path |-> out.args, tags |-> out.loads[i].content,
                          modified |-> fs[out.args].mtime,
                          mtime |-> fs[out.args].mtime]
            IN Saved(IF pushTarget(out.loads[i])
                       THEN [index EXCEPT !.notes = Append(index.notes, entry),
                                          !.tags = IncTags(index.tags, entry.tags)]
                       ELSE index)
       ELSE UNCHANGED <<index, indexFile, tmpFile>>
  /\ UNCHANGED <<fs, clock, result, pc, nWrites, nCalls, faults, cache, library, stream>>

\* rebuild() has listed and read the files there are into its newIndex.
RebuildScanned(i) ==
  /\ out.op = "overlap"
  /\ out.loads[i].op = "rebuild" /\ out.loads[i].at = "scan"
  /\ Moved(i, [out.loads[i] EXCEPT !.at = "assign", !.newIndex = rebuild])
  /\ UNCHANGED <<fs, clock, index, indexFile, tmpFile, result, pc, nWrites, nCalls,
                 faults, cache, library, stream>>

\* rebuild(): this.index = newIndex; save(). An update() that awaits in
\* addNoteToIndex holds the index object that was this.index before.
RebuildAssigned(i) ==
  /\ out.op = "overlap"
  /\ out.loads[i].op = "rebuild" /\ out.loads[i].at = "assign"
  /\ Saved(out.loads[i].newIndex)
  /\ out' = [out EXCEPT !.loads =
               AsList([j \in 1..Len(out.loads) |->
                         IF j = i THEN [out.loads[j] EXCEPT !.at = "returned"]
                         ELSE IF out.loads[j].at \in {"readFile", "stat"}
                           THEN [out.loads[j] EXCEPT !.attached = FALSE]
                         ELSE out.loads[j]])]
  /\ UNCHANGED <<fs, clock, result, pc, nWrites, nCalls, faults, cache, library, stream>>

\* notes/a.md is on disk; the index in memory is empty, or holds what a
\* rebuild() found, or holds the record of an older version of the note; an
\* update('notes/a.md') and a second call, an update of the same path or a
\* rebuild(), have both been made.
RaceInit ==
  /\ clock = 1
  /\ \E ts \in Contents :
       fs = [p \in FileSet |-> IF p = NoteA
                                 THEN [exists |-> TRUE, tags |-> ts, mtime |-> 1]
                                 ELSE NoFile]
  /\ \E old \in Contents \cup {{}} :
       index = IF old = {} THEN EmptyIndex(0)
               ELSE [EmptyIndex(0) EXCEPT
                       !.notes = <<[path |-> NoteA, tags |-> old, modified |-> 0,
                                    mtime |-> 0]>>,
                       !.tags = IncTags(EmptyTags, old)]
  /\ indexFile = Written(index, 0)
  /\ tmpFile = indexFile
  /\ result = [op |-> "new", ok |-> TRUE, ret |-> FALSE, since |-> "none"]
  /\ pc = "idle"
  /\ nWrites = 0
  /\ nCalls = 0
  /\ faults = NoFaults
  /\ \E second \in {Called("update"), Called("rebuild"), ScannedBefore(0)} :
       out = [NoOut EXCEPT !.op = "overlap", !.args = NoteA,
                           !.loads = <<Called("update"), second>>]
  /\ cache = [p \in FileSet |-> NotCached]
  /\ library = <<>>
  /\ stream = NoStream

RaceNext ==
  \E i \in 1..2 :
    \/ UpdateLoaded(i)
    \/ UpdateRead(i)
    \/ UpdateStat(i)
    \/ RebuildScanned(i)
    \/ RebuildAssigned(i)

RaceSpec == RaceInit /\ [][RaceNext]_vars

----------------------------------------------------------------------------
(* scanner.ts: loadNote step by step, with writers of the file between its *)
(* awaits: CacheSpec                                                       *)

\* A loadNote that returns whatever is cached, without a look at the file.
cacheHit_NoStat(p) == cache[p].has

\* loadNote, the cache check: there is an entry and the file's mtimeMs is not
\* above the cached one.
cacheHit(p) == cache[p].has /\ fs[p].mtime <= cache[p].mtime

\* The Note parsed from a content, with the stat's mtime as modified.
Parsed(p, content, mtime) == [path |-> p, tags |-> content, modified |-> mtime]

\* loadNote(base + '/' + p) up to the return of the cached note, a throw, or
\* the end of readFile: with an entry the file is stat'ed (a throw when it is
\* gone) and the cached note returned on a hit; else the content is read (a
\* throw when the file is gone) and the stat is still to come.
LoadNoteBegin(p) ==
  /\ pc = "idle"
  /\ out.op # "readFile"
  /\ CallStep
  /\ out' = IF cache[p].has /\ ~fs[p].exists
              THEN [Returned("loadNote", FALSE, <<"stat">>, <<>>) EXCEPT !.args = p]
            ELSE IF cacheHit(p)
              THEN [Returned("loadNote", TRUE, <<"stat">>,
                             <<Parsed(p, cache[p].tags, cache[p].mtime)>>)
                    EXCEPT !.args = p]
            ELSE IF ~fs[p].exists
              THEN [Returned("loadNote", FALSE, <<"readFile">>, <<>>) EXCEPT !.args = p]
            ELSE [Returned("readFile", TRUE, <<"readFile">>, <<fs[p].tags>>)
                  EXCEPT !.args = p]
  /\ result' = Outcome("loadNote", out'.ok, FALSE)
  /\ UNCHANGED <<fs, clock, index, indexFile, tmpFile, pc, faults, cache, library, stream>>

\* The rest of loadNote after readFile: stat (a throw when the file is gone
\* by now), parse of the content that was read, and the cache entry: the
\* note with the mtimeMs of this stat.
LoadNoteEnd ==
  /\ out.op = "readFile"
  /\ IF fs[out.args].exists
       THEN /\ out' = [Returned("loadNote", TRUE, <<"readFile", "stat">>,
                                <<Parsed(out.args, out.ret[1], fs[out.args].mtime)>>)
                       EXCEPT !.args = out.args]
            /\ cache' = [cache EXCEPT ![out.args] =
                           [has |-> TRUE, tags |-> out.ret[1],
                            mtime |-> fs[out.args].mtime]]
       ELSE /\ out' = [Returned("loadNote", FALSE, <<"readFile", "stat">>, <<>>)
                       EXCEPT !.args = out.args]
            /\ UNCHANGED cache
  /\ result' = Outcome("loadNote", out'.ok, FALSE)
  /\ UNCHANGED <<fs, clock, index, indexFile, tmpFile, pc, nWrites, nCalls, faults,
                 library, stream>>

CacheNext ==
  \/ \E p \in FileSet, ts \in Contents : WriteFile(p, ts)
  \/ \E p \in FileSet : DeleteFile(p)
  \/ Tick
  \/ \E p \in FileSet : LoadNoteBegin(p)
  \/ LoadNoteEnd

CacheSpec == Init /\ [][CacheNext]_vars

\* The same steps with no writer between a load's readFile and its stat.
SerialNext ==
  \/ out.op # "readFile" /\ \E p \in FileSet, ts \in Contents : WriteFile(p, ts)
  \/ out.op # "readFile" /\ \E p \in FileSet : DeleteFile(p)
  \/ out.op # "readFile" /\ Tick
  \/ \E p \in FileSet : LoadNoteBegin(p)
  \/ LoadNoteEnd

SerialSpec == Init /\ [][SerialNext]_vars

----------------------------------------------------------------------------
(* scanner.ts: findRelated and the relation score: RelatedSpec             *)

linkScore == 50
sharedTagScore == 10
sharedWordScore == 5
minWordLength == 3

\* calculateRelationScore(note1, note2): a link either way, the tags of
\* note1 that note2 has, the words of note1's title, longer than 3
\* characters, that are words of note2's title.
calculateRelationScore(note1, note2) ==
  LET words1 == split(toLowerCase(note1.title))
      words2 == split(toLowerCase(note2.title))
  IN (IF note2.path \in note1.links \/ note1.path \in note2.links
        THEN linkScore ELSE 0)
     + Cardinality(note1.tags \cap note2.tags) * sharedTagScore
     + Len(SelectSeq(words1, LAMBDA word :
                       word \in Range(words2) /\ Len(word) > minWordLength))
         * sharedWordScore

\* scanZones(zones) over the notes of the library: zone after zone, every
\* note file under the zone's directory.
scanLibrary(zones) ==
  Flatten([i \in 1..Len(zones) |->
             SelectSeq(library, LAMBDA n : Head(n.path) = zones[i])])

DefaultSearchZoneList == <<"notes", "daily", "maps">>

\* A findRelated() that scores the reference note like every other note.
findRelated_WithTarget(targetNote, maxResults, zones) ==
  LET scored == [i \in DOMAIN scanLibrary(zones) |->
                   [note |-> scanLibrary(zones)[i],
                    score |-> calculateRelationScore(targetNote, scanLibrary(zones)[i])]]
      sorted == SortByScore(SelectSeq(AsList(scored), LAMBDA r : r.score > 0))
  IN AsList([i \in 1..Min(maxResults, Len(sorted)) |-> sorted[i].note])

\* findRelated(notePath, maxResults, zones), once the reference note is
\* loaded: scan, drop the reference note, score, keep the scores above 0,
\* sort by score, cut at maxResults.
findRelated(targetNote, maxResults, zones) ==
  LET allNotes == SelectSeq(scanLibrary(zones), LAMBDA n : n.path # targetNote.path)
      scored == [i \in DOMAIN allNotes |->
                   [note |-> allNotes[i],
                    score |-> calculateRelationScore(targetNote, allNotes[i])]]
      sorted == SortByScore(SelectSeq(AsList(scored), LAMBDA r : r.score > 0))
  IN AsList([i \in 1..Min(maxResults, Len(sorted)) |-> sorted[i].note])

\* A caller of findRelated(notePath, maxResults, zones); the empty zone list
\* is a zones argument that is not given. loadNote throws when the file of
\* notePath does not exist.
FindRelated(notePath, maxResults, zones) ==
  /\ pc = "idle"
  /\ CallStep
  /\ LET found == \E n \in Range(library) : n.path = notePath
         zonesToSearch == IF zones # <<>> THEN zones ELSE DefaultSearchZoneList
     IN /\ result' = Outcome("findRelated", found, FALSE)
        /\ out' = [Returned("findRelated", found, <<>>,
                            IF found
                              THEN findRelated(NoteAt(notePath), maxResults, zonesToSearch)
                              ELSE <<>>)
                   EXCEPT !.args = [notePath |-> notePath, maxResults |-> maxResults,
                                    zones |-> zonesToSearch]]
  /\ UNCHANGED <<fs, clock, index, indexFile, tmpFile, pc, faults, cache, library, stream>>

\* The notes of RelatedSpec: a title, tags, a zone, and whether the note
\* links to the note of the first slot.
MaxRelated == 3
MaxResults == 2
RelatedVariants ==
  {[title |-> <<"a", "b", "c", "d">>, tags |-> {"t1"}, zone |-> "notes", linked |-> FALSE],
   [title |-> <<"a", "b", "c">>, tags |-> {}, zone |-> "notes", linked |-> TRUE],
   [title |-> <<"A", "b", "c", "d", " ", "a", "b", "c", "d">>, tags |-> {"t1", "t2"},
    zone |-> "notes", linked |-> FALSE],
   [title |-> <<"a", "b", "c">>, tags |-> {}, zone |-> "notes", linked |-> FALSE],
   [title |-> <<"a", "b", "c", "d">>, tags |-> {"t2"}, zone |-> "daily", linked |-> FALSE]}
RelatedLibraries == UNION {[1..n -> RelatedVariants] : n \in 0..MaxRelated}
RelatedZones == {<<>>, <<"notes">>}

RelatedInit ==
  /\ fs = [p \in FileSet |-> NoFile]
  /\ clock = Today
  /\ index = EmptyIndex(Today)
  /\ indexFile = Written(index, Today)
  /\ tmpFile = indexFile
  /\ \E lib \in RelatedLibraries :
       library = [i \in DOMAIN lib |->
                    [path |-> NotePath(i, lib[i].zone), title |-> lib[i].title,
                     tags |-> lib[i].tags,
                     links |-> IF lib[i].linked THEN {NotePath(1, lib[1].zone)} ELSE {}]]
  /\ result = [op |-> "new", ok |-> TRUE, ret |-> FALSE, since |-> "none"]
  /\ pc = "idle"
  /\ nWrites = MaxWrites
  /\ nCalls = MaxCalls - 1
  /\ faults = NoFaults
  /\ out = NoOut
  /\ cache = [p \in FileSet |-> NotCached]
  /\ stream = NoStream

RelatedNext ==
  \E i \in 1..MaxRelated, z \in {"notes", "daily"}, n \in 0..MaxResults,
     zs \in RelatedZones :
    FindRelated(NotePath(i, z), n, zs)

RelatedSpec == RelatedInit /\ [][RelatedNext]_vars

----------------------------------------------------------------------------
(* Properties *)

\* How many records of idx carry tag t.
Carrying(idx, t) == Cardinality({i \in 1..Len(idx.notes) : t \in idx.notes[i].tags})

\* How many records of idx have path p.
RecordsOf(idx, p) == Cardinality({i \in 1..Len(idx.notes) : idx.notes[i].path = p})

\* What load() would make of the index file.
DiskView == IF indexFile.kind = "ok" THEN indexFile.content ELSE EmptyIndex(0)

\* C1: the count of every tag equals the number of records carrying the tag,
\* and no tag has an entry that no record carries.
C1_TagCountsExact ==
  index # Null =>
    \A t \in Tags :
      /\ TagCount(index.tags, t) = Carrying(index, t)
      /\ t \in DOMAIN index.tags => Carrying(index, t) > 0

\* C2: after any sequence of completed rebuild, update and invalidate calls no
\* two records of the index have the same path.
C2_PathsUnique ==
  index # Null =>
    \A i, j \in 1..Len(index.notes) :
      i # j => index.notes[i].path # index.notes[j].path

\* C3: a reader of the index file during a save sees a complete document, the
\* previous one or the new one, never a partially written one.
C3_ReaderSeesCompleteIndex ==
  result.op = "read" => result.ret

\* C4: load() and isStale() never fail, whatever the index file holds.
C4_LoadNeverFails ==
  result.op \in {"load", "isStale"} => result.ok

\* C5: after a rebuild, a change of one note file's modification time makes
\* the next isStale() return true (here even with the new modification time
\* later than the time the index was written).
C5_StaleAfterTouch ==
  [][(/\ result.since = "touched"
      /\ \E p \in FileSet : fs[p].exists /\ fs[p].mtime > indexFile.mtime
      /\ IsStale)
     => result'.ret]_vars

\* C6: after rebuild() the index holds exactly one record for every note file
\* of every configured zone (the archive included), and no other record.
C6_RebuildIndexesEveryZone ==
  result.op = "rebuild" =>
    /\ \A zone \in ZONE_CONFIGS :
         \A i \in 1..Len(ZoneTargets(zone)) :
           CanRead(ZoneTargets(zone)[i]) =>
             RecordsOf(index, getRelativePath(ZoneTargets(zone)[i])) = 1
    /\ \A i \in 1..Len(index.notes) :
         \E zone \in ZONE_CONFIGS :
           \E k \in 1..Len(ZoneTargets(zone)) :
             /\ CanRead(ZoneTargets(zone)[k])
             /\ getRelativePath(ZoneTargets(zone)[k]) = index.notes[i].path

\* C7: a rebuild() that directly follows a rebuild(), with no change of the
\* corpus between them, leaves the records and the tag counts as they were.
C7_RebuildStable ==
  [][(result.op = "rebuild" /\ Rebuild)
     => (index'.notes = index.notes /\ index'.tags = index.tags)]_vars

C7_Witness ==
  /\ result.since = "again"
  /\ Len(index.notes) = 2
  /\ TagCount(index.tags, "t1") = 2

\* C8: invalidate(paths) removes exactly the records whose path is in paths,
\* and the count of every tag drops by exactly the number of removed records
\* that carry the tag.
C8_InvalidateExact ==
  [][\A ps \in SUBSET FileSet :
       (Invalidate(ps) /\ result'.ok) =>
         /\ index'.notes = SelectSeq(load.index.notes, LAMBDA n : n.path \notin ps)
         /\ \A t \in Tags :
              TagCount(index'.tags, t) =
                TagCount(load.index.tags, t)
                - Cardinality({i \in 1..Len(load.index.notes) :
                                 /\ load.index.notes[i].path \in ps
                                 /\ t \in load.index.notes[i].tags})]_vars

\* C9: when rebuild, update or invalidate has returned, the index file holds
\* the records and the tag counts of the in-memory index.
C9_PersistedAfterMutation ==
  (result.op \in {"rebuild", "update", "invalidate"} /\ result.ok) =>
    /\ DiskView.notes = index.notes
    /\ DiskView.tags = index.tags

\* C10: load() with no index file returns, without error, an empty index:
\* version 1, no records, no tag counts.
C10_LoadMissingIsEmpty ==
  [][(Load /\ index = Null /\ indexFile.kind = "absent")
     => (/\ result'.ok
         /\ index'.version = 1
         /\ index'.notes = <<>>
         /\ DOMAIN index'.tags = {})]_vars

C10_Witness ==
  /\ result.op = "load"
  /\ result.ok
  /\ indexFile.kind = "absent"
  /\ index = EmptyIndex(index.lastUpdated)

----------------------------------------------------------------------------
(* Properties of the queries *)

Paths(recs) == {recs[i].path : i \in 1..Len(recs)}

\* The records of idx among which a query with these zones filters by tag.
Searched(idx, zones) ==
  IF zones = {} THEN idx.notes
  ELSE SelectSeq(idx.notes, LAMBDA n : \E z \in zones : PathIncludes(n.path, z))

\* The zones listByTagsOptimized searches for a caller who gave zs.
ListedZones(zs) == IF zs = {} THEN getDefaultSearchZones ELSE zs

\* Every entry of ret is a record of recs, without its fingerprint.
FromIndex(ret, recs) ==
  \A i \in 1..Len(ret) : \E j \in 1..Len(recs) : ret[i] = WithoutMtime(recs[j])

\* C11: in all-of mode the notes returned are exactly the indexed notes (of
\* the zones searched) whose tag set contains every requested tag; in any-of
\* mode they are exactly the notes carrying at least one requested tag, and
\* no note is returned twice.
C11_TagFilterExact ==
  [][\A ts \in TagLists, zs \in ListZones :
       /\ (ListByTagsOptimized(ts, "all", zs # {}, zs) /\ out'.ok) =>
            /\ FromIndex(out'.ret, index'.notes)
            /\ Paths(out'.ret) =
                 Paths(SelectSeq(Searched(index', ListedZones(zs)),
                                 LAMBDA n : Range(ts) \subseteq n.tags))
       /\ (ListByTagsOptimized(ts, "any", zs # {}, zs) /\ out'.ok) =>
            /\ FromIndex(out'.ret, index'.notes)
            /\ Paths(out'.ret) =
                 Paths(SelectSeq(Searched(index', ListedZones(zs)),
                                 LAMBDA n : Range(ts) \cap n.tags # {}))
            /\ \A i, j \in 1..Len(out'.ret) :
                 i # j => out'.ret[i].path # out'.ret[j].path]_vars

\* An all-of listing has answered from an index of two notes and returned
\* the one that carries both tags.
C11_Witness ==
  /\ out.op = "listByTagsOptimized"
  /\ result.ret
  /\ Len(index.notes) = 2
  /\ Len(out.ret) = 1
  /\ out.ret[1].tags = {"t1", "t2"}
  /\ \E i \in 1..2 : index.notes[i].tags = {"t1"} /\ index.notes[i].path = NoteA

InZone(path, zone) ==
  IF zone = "scratchpad" THEN path = getRelativePath(getZonePath("scratchpad"))
  ELSE /\ IsPrefix(getRelativePath(getZonePath(zone)), path)
       /\ Len(path) > Len(getRelativePath(getZonePath(zone)))

\* C12: a query with a zone filter returns a record if and only if its path
\* lies under the directory of one of the requested zones; a note of a zone
\* that was not requested is not returned.
C12_ZoneFilterByPrefix ==
  [][\A zs \in ZoneSets :
       (ScanZonesMetadata(zs) /\ out'.ok) =>
         Paths(out'.ret) =
           Paths(SelectSeq(index'.notes, LAMBDA n : \E z \in zs : InZone(n.path, z)))]_vars

\* C17: a metadata query that starts while isStale() is true rebuilds the
\* index (in memory and on disk) before it queries, and answers from the
\* rebuilt index.
C17_StaleRebuiltBeforeQuery ==
  [][(result'.op = "scanZonesMetadata" /\ load.ok /\ isStale(load.index)) =>
       LET rebuilt == rebuild
       IN \A zs \in ZoneSets :
            ScanZonesMetadata(zs) =>
              /\ out'.ok
              /\ out'.calls = <<"isStale", "rebuild", "query">>
              /\ index'.notes = rebuilt.notes
              /\ index'.tags = rebuilt.tags
              /\ indexFile' = Written(index', clock)
              /\ out'.ret = query(rebuilt, QueryOptions(TRUE, zs, <<>>, 0))]_vars

\* A second metadata query found a file newer than the index, rebuilt, and
\* returned the two notes of the corpus.
C17_Witness ==
  /\ out.op = "scanZonesMetadata"
  /\ out.calls = <<"isStale", "rebuild", "query">>
  /\ nCalls = 2
  /\ Len(out.ret) = 2
  /\ out.ret[1].modified > out.ret[2].modified

\* The fingerprints idx stores for path p (one, unless p has several records).
Prints(idx, p) == {idx.notes[i].mtime : i \in {k \in 1..Len(idx.notes) : idx.notes[k].path = p}}

\* For no path is the newest fingerprint of after older than that of before.
NotLowered(before, after) ==
  \A p \in FileSet :
    (Prints(before, p) # {} /\ Prints(after, p) # {}) =>
      \E m \in Prints(after, p) : \A n \in Prints(before, p) : m >= n

\* C18: the fingerprint the index stores for a path never decreases: after a
\* rebuild or an update every record has a fingerprint greater than or equal
\* to the one the index (in memory, on disk) held for its path before.
C18_FingerprintNeverDecreases ==
  [][(result'.op \in {"rebuild", "update"} /\ result'.ok) =>
       /\ index # Null => NotLowered(index, index')
       /\ NotLowered(DiskView, DiskView')]_vars

\* C20: update(P) for a path whose file is missing or cannot be read does not
\* return as if it had succeeded: the call fails (it throws to its caller).
C20_UpdateFailureSurfaced ==
  (result.op = "update" /\ ~result.ret) => ~result.ok

\* The readable files of the zones in zs whose directories can be listed.
Scannable(zs) ==
  {p \in FileSet :
     /\ CanRead(Join(BasePath, p))
     /\ \E i \in 1..Len(zs) :
          IF zs[i] = "scratchpad" THEN p = Scratch
          ELSE \E k \in 1..Len(getZonePaths(zs[i])) :
                 /\ ~GlobFails(getZonePaths(zs[i])[k])
                 /\ IsPrefix(getZonePaths(zs[i])[k], Join(BasePath, p))}

\* C19: rebuild() and scanZones() complete whatever fails to read: a file
\* that cannot be read or parsed is left out, a directory that cannot be
\* listed is skipped, and every other file of the zones is in the result.
C19_PartialFailureIsolated ==
  [][/\ (Rebuild /\ TRUE) =>
          /\ result'.ok
          /\ Paths(index'.notes) = Scannable(RebuildZones)
     /\ \A zs \in ScanLists :
          ScanZones(zs) =>
            /\ out'.ok
            /\ Scannable(zs) \subseteq Paths(out'.ret)]_vars

\* The position of a note in a list of results, 0 when it is not there.
Rank(ret, path) ==
  IF \E i \in 1..Len(ret) : ret[i].note = path
    THEN CHOOSE i \in 1..Len(ret) : ret[i].note = path
    ELSE 0

\* C14: for the query of a search, a note whose title is the query scores
\* strictly higher than a note of the same zone, tags, date and content
\* whose title only contains the query, and is ranked before it.
C14_ExactTitleRanksFirst ==
  (out.op = "search" /\ out.ok /\ out.args.query # <<>>) =>
    \A a, b \in Range(library) :
      ( /\ a.title = out.args.query
        /\ b.title # out.args.query
        /\ Includes(b.title, out.args.query)
        /\ getZoneFromPath(a.path) = getZoneFromPath(b.path)
        /\ a.tags = b.tags
        /\ a.modified = b.modified
        /\ a.content = b.content )
      => /\ scoreNoteEnhanced(a, out.args) > scoreNoteEnhanced(b, out.args)
         /\ Rank(out.ret, b.path) # 0 =>
              /\ Rank(out.ret, a.path) # 0
              /\ Rank(out.ret, a.path) < Rank(out.ret, b.path)

\* C15: search() returns its results in non-increasing order of score, and
\* no more of them than the limit it was given, with and without a query.
C15_SortedAndCapped ==
  (out.op = "search" /\ out.ok) =>
    /\ \A i, j \in 1..Len(out.ret) : i < j => out.ret[i].score >= out.ret[j].score
    /\ out.args.limit # 0 => Len(out.ret) <= out.args.limit

\* A search with no query and limit 1 over two notes, of which the older
\* one has the higher score: it is the one returned.
C15_Witness ==
  /\ out.op = "search" /\ out.ok
  /\ out.args.query = <<>>
  /\ out.args.limit = 1
  /\ Len(library) = 2
  /\ Len(out.ret) = 1
  /\ \E n \in Range(library) :
       /\ n.path # out.ret[1].note
       /\ getZoneFromPath(n.path) \in getDefaultSearchZones
       /\ n.modified > NoteAt(out.ret[1].note).modified
       /\ scoreMetadataOnly(n, out.args) < out.ret[1].score

\* The number of results in a list of batches.
RECURSIVE TotalResults(_)
TotalResults(batches) ==
  IF batches = <<>> THEN 0
  ELSE Len(Head(batches).results) + TotalResults(Tail(batches))

----------------------------------------------------------------------------
(* Properties of the scans *)

\* No two items of a scan result have the same path.
NoPathTwice(ret) ==
  \A i, j \in 1..Len(ret) : ret[i].path = ret[j].path => i = j

\* C21: the result of one scan, scanZones or scanZonesMetadata, holds no
\* two items with the same logical path, whatever the list of zones.
C21_NoPathTwiceInScan ==
  [][\A zs \in RepeatedLists :
       (ScanZones(zs) \/ ScanZonesMetadata(Range(zs))) =>
         (out'.ok => NoPathTwice(out'.ret))]_vars

\* C22: in every state of the corpus and for every list of zones, a
\* metadata scan that returns gives one item for exactly the paths the direct scan of
\* the files returns: the same number of items, the same set of paths.
C22_MetadataScanRefinesFileScan ==
  [][\A zs \in ZoneLists :
       (ScanZonesMetadata(Range(zs)) /\ out'.ok) =>
         /\ Len(out'.ret) = Len(DirectScan(zs).notes)
         /\ Paths(out'.ret) = Paths(DirectScan(zs).notes)]_vars

----------------------------------------------------------------------------
(* Properties of the search without a query *)

\* The index records that pass the zone and tag filters of a search.
Passed(idx, options) ==
  {r \in Range(Searched(idx, ListedZones(options.zones))) :
     \A i \in 1..Len(options.tags) : options.tags[i] \in r.tags}

\* The step is a search without a query that returned.
NoQuerySearch ==
  /\ out'.op = "search" /\ out'.ok /\ out'.args.query = <<>>
  /\ out' # out

\* C23, as claimed: a search without a query loads no note, and it returns
\* every index record that passed the zone and tag filters, one result each,
\* with an empty excerpt.
C23_NoQueryReturnsEveryRecord ==
  [][NoQuerySearch =>
         /\ out'.loads = <<>>
         /\ {out'.ret[i].note : i \in 1..Len(out'.ret)}
              = {r.path : r \in Passed(index', out'.args)}
         /\ \A i \in 1..Len(out'.ret) : out'.ret[i].excerpt = <<>>]_vars

\* C23, amended: a search without a query loads no note; its results are
\* index records that passed the zone and tag filters, one result each with
\* an empty excerpt: all of them when no limit is given, otherwise the limit
\* highest-scoring ones (all, when there are no more than limit).
C23_NoQueryReturnsUpToLimit ==
  [][NoQuerySearch =>
         LET options == out'.args
             passed == Passed(index', options)
             returned == {out'.ret[i].note : i \in 1..Len(out'.ret)}
         IN /\ out'.loads = <<>>
            /\ returned \subseteq {r.path : r \in passed}
            /\ Cardinality(returned) = Len(out'.ret)
            /\ Len(out'.ret) = IF options.limit = 0 THEN Cardinality(passed)
                               ELSE Min(options.limit, Cardinality(passed))
            /\ \A i \in 1..Len(out'.ret) : out'.ret[i].excerpt = <<>>
            /\ \A r \in passed :
                 r.path \notin returned =>
                   \A i \in 1..Len(out'.ret) :
                     out'.ret[i].score >= scoreMetadataOnly(Metadata(r), options)]_vars

\* A search without a query and with limit 1 returned one of two records
\* that passed the filters.
C23_Witness ==
  /\ out.op = "search" /\ out.ok
  /\ out.args.query = <<>> /\ out.args.limit = 1
  /\ Len(out.ret) = 1 /\ out.ret[1].excerpt = <<>> /\ out.loads = <<>>
  /\ Cardinality(Passed(index, out.args)) = 2

----------------------------------------------------------------------------
(* Properties of findRelated *)

\* The words of the reference title, longer than 3 characters, that the
\* other title has too, upper and lower case alike.
SharedWords(p, n) ==
  {i \in 1..Len(split(toLowerCase(p.title))) :
     /\ Len(split(toLowerCase(p.title))[i]) > 3
     /\ \E j \in 1..Len(split(toLowerCase(n.title))) :
          split(toLowerCase(n.title))[j] = split(toLowerCase(p.title))[i]}

\* The relation score of note n to the reference note p.
RelationScore(p, n) ==
  (IF n.path \in p.links \/ p.path \in n.links THEN 50 ELSE 0)
  + 10 * Cardinality(p.tags \cap n.tags)
  + 5 * Cardinality(SharedWords(p, n))

\* C24: findRelated(P, N) never returns P, returns only notes whose relation
\* score to P is greater than 0, at most N of them, in non-increasing order
\* of score.
C24_RelatedPositiveSortedCapped ==
  (out.op = "findRelated" /\ out.ok) =>
    LET p == NoteAt(out.args.notePath)
    IN /\ \A i \in 1..Len(out.ret) :
            /\ out.ret[i].path # p.path
            /\ RelationScore(p, out.ret[i]) > 0
       /\ Len(out.ret) <= out.args.maxResults
       /\ \A i, j \in 1..Len(out.ret) :
            i < j => RelationScore(p, out.ret[i]) >= RelationScore(p, out.ret[j])

\* findRelated with N = 1 returned the higher-scoring of two related
\* notes, and the reference note lies in a searched zone.
C24_Witness ==
  /\ out.op = "findRelated" /\ out.ok
  /\ Len(out.ret) = 1 /\ out.args.maxResults = 1
  /\ Head(out.args.notePath) \in Range(out.args.zones)
  /\ \E n \in Range(library) :
       /\ n.path # out.args.notePath
       /\ RelationScore(NoteAt(out.args.notePath), n) > 0
       /\ RelationScore(NoteAt(out.args.notePath), n)
            < RelationScore(NoteAt(out.args.notePath), out.ret[1])

----------------------------------------------------------------------------
(* Properties of isStale, update and the loop of search *)

\* Some note file of a zone that isStale() scans is newer than the index file.
NewerThanIndex ==
  /\ indexFile.kind # "absent"
  /\ \E i \in 1..Len(ScanTargets(StaleZones)) :
       /\ Listed(ScanTargets(StaleZones)[i])
       /\ fs[getRelativePath(ScanTargets(StaleZones)[i])].mtime > indexFile.mtime

\* C25: isStale() returns true exactly when some scanned note file on disk is
\* newer than the index, or the index is empty and at least one note exists
\* on disk; it returns false with an empty index and no note on disk, and
\* with a non-empty index that no file is newer than.
C25_StaleExactly ==
  [][(IsStale /\ result'.ok) =>
       (result'.ret <=>
          \/ NewerThanIndex
          \/ Len(index'.notes) = 0 /\ \E p \in FileSet : fs[p].exists)]_vars

\* The records of idx for the paths other than p, in their order.
OtherRecords(idx, p) == SelectSeq(idx.notes, LAMBDA n : n.path # p)

\* C26: after update(P) returns with P's file present on disk, the index
\* holds exactly one record for P, made from the file's current content and
\* modification time, and the records of every other path are as before.
C26_UpdateReplacesOneRecord ==
  [][\A P \in UpdateArgs :
       LET file == getRelativePath(Join(BasePath, P))
       IN (Update(P) /\ result'.ok /\ fs[file].exists) =>
            /\ RecordsOf(index', file) = 1
            /\ \A i \in 1..Len(index'.notes) :
                 index'.notes[i].path = file =>
                   /\ index'.notes[i].tags = fs[file].tags
                   /\ index'.notes[i].mtime = fs[file].mtime
            /\ OtherRecords(index', file) = OtherRecords(load.index, file)]_vars

\* The paths of a list of records, in their order.
PathList(recs) == AsList([i \in DOMAIN recs |-> recs[i].path])

\* A search with a query has returned.
QuerySearched == out.op = "search" /\ out.ok /\ out.args.query # <<>>

\* The candidates of the search that returned, in pre-order: the indexed
\* notes of the searched zones that pass the pre-filter, sorted by expected
\* relevance.
Preordered ==
  LET found == query(index, QueryOptions(TRUE, ListedZones(out.args.zones), <<>>, 0))
      allMetadata == AsList([i \in DOMAIN found |-> Metadata(found[i])])
  IN PathList(sortByExpectedRelevance(
              preFilterCandidates(filterByTags(allMetadata, out.args), out.args),
              out.args))

\* The limit of the search that returned.
Limit == IF out.args.limit # 0 THEN out.args.limit ELSE 20

\* The full score of the k-th note the search loaded.
LoadedScore(k) == scoreNoteEnhanced(NoteAt(out.loads[k]), out.args)

\* After k loaded candidates the kept results have reached the limit, and
\* the worst of the best Limit of them scores at least 25: at least Limit
\* of them do.
Confident(k) ==
  /\ Cardinality({i \in 1..k : LoadedScore(i) > 0}) >= Limit
  /\ Cardinality({i \in 1..k : LoadedScore(i) >= 25 * Scale}) >= Limit

Max(a, b) == IF a >= b THEN a ELSE b

\* C27: a query search loads the candidates one at a time in pre-order; once
\* the kept results have reached the limit and the worst of the best limit
\* scores at least 25 no further candidate is loaded, and while either
\* condition is false the search stops only when the candidates, or the
\* count of processed candidates, end it.
C27_StopsWhenConfident ==
  QuerySearched =>
    /\ out.loads = SubSeq(Preordered, 1, Len(out.loads))
    /\ \A k \in 1..(Len(out.loads) - 1) : ~Confident(k)
    /\ (Len(out.loads) < Len(Preordered) /\ Len(out.loads) < Limit * 3)
         => Confident(Len(out.loads))
    /\ \A i, j \in 1..Len(out.ret) : i < j => out.ret[i].score >= out.ret[j].score

\* With limit 1 the first candidate was kept below the threshold, the second
\* one reached it, and the third one was not loaded.
C27_Witness ==
  /\ QuerySearched /\ Limit = 1
  /\ Len(out.loads) = 2 /\ Len(Preordered) >= 3
  /\ LoadedScore(1) > 0 /\ ~Confident(1) /\ Confident(2)

\* C28, as claimed: a query search that stops without the confidence
\* condition has processed max(limit * 3, candidate-count) candidates, or
\* all there are, and never fewer.
C28_CountStopAtMax ==
  (QuerySearched /\ ~Confident(Len(out.loads))) =>
    Len(out.loads) = Min(Len(Preordered), Max(Limit * 3, Len(Preordered)))

\* C28, amended: whatever the scores, a query search processes no more than
\* min(limit * 3, candidate-count) candidates, and when it stops without the
\* confidence condition it has processed exactly that many.
C28_CountStopAtMin ==
  QuerySearched =>
    /\ Len(out.loads) <= Min(Limit * 3, Len(Preordered))
    /\ ~Confident(Len(out.loads)) => Len(out.loads) = Min(Limit * 3, Len(Preordered))

\* With limit 1 and four candidates below the threshold, three were loaded.
C28_Witness ==
  /\ QuerySearched /\ Limit = 1
  /\ Len(Preordered) = 4 /\ Len(out.loads) = 3
  /\ ~Confident(3)

\* The query of the search is in the title or in a tag of the note, upper
\* and lower case alike.
InTitleOrTag(n) ==
  \/ Includes(toLowerCase(n.title), toLowerCase(out.args.query))
  \/ \E t \in n.tags : Includes(toLowerCase(TagChars(t)), toLowerCase(out.args.query))

ZoneOrder == <<"notes", "maps", "daily", "scratchpad", "inbox", "archive">>

\* The place in ZoneOrder of the zone the note at path is stored in.
ZoneRank(path) ==
  CHOOSE k \in 1..Len(ZoneOrder) : InZone(path, ZoneOrder[k])

\* Two notes that differ in nothing that is scored but their zone.
Alike(p1, p2) ==
  /\ NoteAt(p1).title = NoteAt(p2).title
  /\ NoteAt(p1).tags = NoteAt(p2).tags
  /\ NoteAt(p1).content = NoteAt(p2).content
  /\ NoteAt(p1).modified = NoteAt(p2).modified

\* C30: scoring, with or without a query, and pre-ordering give every note
\* the weight of the zone it is stored in, the weights being strictly
\* ordered notes > maps > daily > scratchpad > inbox > archive: of two notes
\* alike but for their zone, the one of the higher zone scores strictly more
\* and is not loaded after the other. This holds for the scratchpad file too.
C30_ZoneWeightOrder ==
  (out.op = "search" /\ out.ok) =>
    /\ \A i, j \in 1..Len(out.ret) :
         (/\ Alike(out.ret[i].note, out.ret[j].note)
          /\ ZoneRank(out.ret[i].note) < ZoneRank(out.ret[j].note))
           => out.ret[i].score > out.ret[j].score
    /\ \A i, j \in 1..Len(out.loads) :
         (/\ Alike(out.loads[i], out.loads[j])
          /\ ZoneRank(out.loads[i]) < ZoneRank(out.loads[j]))
           => i < j

----------------------------------------------------------------------------
(* Properties of the batches of a streaming search *)

----------------------------------------------------------------------------
(* Properties of the content cache *)

\* loadNote returns in this step.
LoadReturns == out' # out /\ out'.op = "loadNote" /\ out'.ok

\* loadNote returns the cached note in this step.
CachedReturned == LoadReturns /\ out'.calls = <<"stat">>

\* C32, as claimed: loadNote returns the cached parse only if the file's
\* modification time is not newer than the cached fingerprint; a load that
\* does not return it re-reads the file and replaces the entry; and a cached
\* parse is never returned for a file modified after it was cached: what
\* is returned is the parse of the file as it is.
C32_CachedNeverOutdated ==
  [][/\ CachedReturned =>
          /\ fs[out'.args].mtime <= cache[out'.args].mtime
          /\ out'.ret[1].tags = fs[out'.args].tags
     /\ (LoadReturns /\ ~CachedReturned) =>
          /\ cache'[out'.args].tags = out'.ret[1].tags
          /\ cache'[out'.args].mtime = fs[out'.args].mtime]_vars

\* C32, amended: loadNote returns the cached parse only if the file's
\* modification time is not newer than the cached fingerprint; when the
\* fingerprint has advanced the file is read again; a load that does not
\* return the cached parse replaces the entry with what it read and the
\* modification time it found.
C32_CachedOnlyIfNotNewer ==
  [][/\ CachedReturned => fs[out'.args].mtime <= cache[out'.args].mtime
     /\ \A p \in FileSet :
          (/\ LoadNoteBegin(p)
           /\ cache[p].has /\ fs[p].exists /\ fs[p].mtime > cache[p].mtime)
            => out'.op = "readFile" /\ out'.ret = <<fs[p].tags>>
     /\ (LoadReturns /\ ~CachedReturned) =>
          /\ cache'[out'.args].tags = out'.ret[1].tags
          /\ cache'[out'.args].mtime = fs[out'.args].mtime]_vars

\* A note cached at one time and written again at a later one has been read
\* again, and the cache holds what the later load read.
C32_Witness ==
  /\ out.op = "loadNote" /\ out.ok
  /\ out.calls = <<"readFile", "stat">>
  /\ clock = 1 /\ nCalls = 2
  /\ cache[out.args].mtime = 1
  /\ cache[out.args].tags = {"t1", "t2"}
  /\ fs[out.args].tags = {"t1", "t2"}

\* C37: a cache entry pairs a parsed note with the fingerprint of the file
\* version that was parsed: the entry a load stores under the modification
\* time it finds holds the content the file has at that time, also when the
\* file was written between the load's read and its stat.
C37_EntryPairsParsedVersion ==
  [][(LoadNoteEnd /\ out'.ok) =>
       cache'[out.args].tags = fs[out.args].tags]_vars

----------------------------------------------------------------------------
(* Properties of a search over files that fail to load *)

\* The metadata of the indexed notes of the searched zones whose files load.
Loadable ==
  LET found == query(index, QueryOptions(TRUE, ListedZones(out.args.zones), <<>>, 0))
      allMetadata == AsList([i \in DOMAIN found |-> Metadata(found[i])])
  IN SelectSeq(allMetadata, LAMBDA m : m.path \notin faults.files)

\* C33: a query search over candidates of which one cannot be loaded does not
\* fail: it returns what the search over the remaining candidates returns.
C33_FailingCandidateExcluded ==
  (out.op = "search" /\ out.args.query # <<>>) =>
    /\ out.ok
    /\ out.ret = search(Loadable, out.args)

----------------------------------------------------------------------------
(* Properties of staleness against the files on disk *)

\* The note file at abs has a record in idx with the file's modification time.
IndexedAsOnDisk(idx, abs) ==
  \E j \in 1..Len(idx.notes) :
    /\ idx.notes[j].path = getRelativePath(abs)
    /\ idx.notes[j].mtime = fs[getRelativePath(abs)].mtime

\* C34: whenever isStale() returns false, every note file on disk in a
\* scanned zone has a record in the index whose fingerprint is the file's
\* modification time, after any sequence of writes and of rebuild, update and
\* invalidate calls.
C34_NotStaleMeansIndexed ==
  [][(IsStale /\ result'.ok /\ ~result'.ret) =>
       \A i \in 1..Len(ScanTargets(StaleZones)) :
         Listed(ScanTargets(StaleZones)[i]) =>
           IndexedAsOnDisk(index', ScanTargets(StaleZones)[i])]_vars

----------------------------------------------------------------------------
(* Properties of the index after a file is deleted *)

\* A metadata scan, the query behind the automatic rebuild, returns in this
\* step.
MetadataScanned == out' # out /\ out'.op = "scanZonesMetadata" /\ out'.ok

\* C35: when an indexed note file has been deleted from disk and invalidate
\* was not called, isStale() returns true and the automatic rebuild drops the
\* record before the query reads the index: the query returns no record whose
\* file no longer exists.
C35_DeletedFileNeverReturned ==
  [][MetadataScanned =>
       /\ (\E j \in 1..Len(load.index.notes) : ~fs[load.index.notes[j].path].exists)
            => "rebuild" \in Range(out'.calls)
       /\ \A i \in 1..Len(out'.ret) : fs[out'.ret[i].path].exists]_vars

----------------------------------------------------------------------------
(* Properties of overlapping calls *)

\* Both calls in flight have returned.
BothReturned ==
  /\ out.op = "overlap"
  /\ \A i \in 1..Len(out.loads) : out.loads[i].at = "returned"

\* C36: once two overlapping update(P) calls, or an update(P) and a rebuild()
\* that overlap, have both returned, the index has exactly one record for P
\* and the count of every tag is the number of records carrying it.
C36_OverlapLeavesOneRecord ==
  BothReturned =>
    /\ RecordsOf(index, out.args) = 1
    /\ \A t \in Tags : TagCount(index.tags, t) = Carrying(index, t)

----------------------------------------------------------------------------
(* Properties of early termination against the exhaustive search *)

\* What scoring every candidate, sorting and cutting at the limit gives.
Exhaustive ==
  LET every == AsList([i \in DOMAIN Preordered |->
                         SearchResult(NoteAt(Preordered[i]),
                                      scoreNoteEnhanced(NoteAt(Preordered[i]), out.args),
                                      out.args)])
      sorted == SortByScore(SelectSeq(every, LAMBDA r : r.score > 0))
  IN IF out.args.limit # 0
       THEN SubSeq(sorted, 1, Min(out.args.limit, Len(sorted)))
       ELSE sorted

\* The scores of a list of results, in their order.
Scores(results) == AsList([i \in DOMAIN results |-> results[i].score])

\* C38: the results of a query search with limit L and early termination are
\* the L highest-scoring notes among all the candidates that pass the
\* metadata filters and the pre-filter: their scores are those of the first
\* L results of the search that scores every candidate.
C38_EarlyTerminationExact ==
  QuerySearched => Scores(out.ret) = Scores(Exhaustive)

\* What sorting the candidates the search loaded and scored above 0, and
\* cutting at the limit, gives.
BestOfLoaded ==
  LET every == AsList([k \in DOMAIN out.loads |->
                         SearchResult(NoteAt(out.loads[k]), LoadedScore(k), out.args)])
      sorted == SortByScore(SelectSeq(every, LAMBDA r : r.score > 0))
  IN IF out.args.limit # 0
       THEN SubSeq(sorted, 1, Min(out.args.limit, Len(sorted)))
       ELSE sorted

\* C38, amended: the results of a query search with limit L are the L
\* highest-scoring notes among the candidates the search loaded before it
\* stopped, in the order of their scores; a candidate that was not loaded is
\* not among them whatever it would score.
C38_BestOfLoaded ==
  QuerySearched =>
    /\ out.ret = BestOfLoaded
    /\ \A i \in 1..Len(out.ret) : out.ret[i].note \in Range(out.loads)

\* A search with limit 1 stopped after three of four candidates and returned
\* one of them; the candidate it did not load scores above the one it
\* returned.
C38_Witness ==
  /\ QuerySearched
  /\ out.args.limit = 1
  /\ Len(Preordered) = 4 /\ Len(out.loads) = 3
  /\ Len(out.ret) = 1
  /\ scoreNoteEnhanced(NoteAt(Preordered[4]), out.args) > out.ret[1].score

============================================================================
